---- MODULE Spec2Model ----
(***************************************************************************)
(* Playlist ingestion of PyIPTV: the M3U parser of pyiptv/m3u_parser.py    *)
(* (class M3UParser).                                                      *)
(*                                                                         *)
(* Text is modelled at the level the code works on it.  A file is a        *)
(* sequence of bytes (0..255); decoded text, lines, dictionary keys and    *)
(* values are sequences of Unicode code points.  The comment after a       *)
(* tuple of numbers gives the string it spells.                            *)
(*                                                                         *)
(* The source files of Files, CacheFiles and LongFile are ASCII and UTF-8   *)
(* text; those of EncodingFiles come in the encodings the detector tells   *)
(* apart, with and without byte-order-mark.                                *)
(***************************************************************************)
EXTENDS Integers, Sequences, FiniteSets, TLC

\* ------------------------------------------------------------------------
\* String constants of the source
\* ------------------------------------------------------------------------
S_EXTINF     == <<35, 69, 88, 84, 73, 78, 70, 58>>                \* "#EXTINF:"
S_EXTVLCOPT  == <<35, 69, 88, 84, 86, 76, 67, 79, 80, 84, 58>>    \* "#EXTVLCOPT:"
S_EXTGRP     == <<35, 69, 88, 84, 71, 82, 80, 58>>                \* "#EXTGRP:"
S_EXTM3U     == <<35, 69, 88, 84, 77, 51, 85>>                    \* "#EXTM3U"
S_EXTINF_TAG == <<35, 69, 88, 84, 73, 78, 70>>                    \* "#EXTINF"
S_HASH       == <<35>>                                            \* "#"
K_url          == <<117, 114, 108>>                               \* "url"
K_duration     == <<100, 117, 114, 97, 116, 105, 111, 110>>       \* "duration"
K_name         == <<110, 97, 109, 101>>                           \* "name"
K_tvg_name     == <<116, 118, 103, 45, 110, 97, 109, 101>>        \* "tvg-name"
K_tvg_id       == <<116, 118, 103, 45, 105, 100>>                 \* "tvg-id"
K_tvg_logo     == <<116, 118, 103, 45, 108, 111, 103, 111>>       \* "tvg-logo"
K_group_title  == <<103, 114, 111, 117, 112, 45, 116, 105, 116, 108, 101>>  \* "group-title"
K_tvg_type     == <<116, 118, 103, 45, 116, 121, 112, 101>>       \* "tvg-type"
K_content_type == <<99, 111, 110, 116, 101, 110, 116, 95, 116, 121, 112, 101>>  \* "content_type"
V_Uncategorized == <<85, 110, 99, 97, 116, 101, 103, 111, 114, 105, 122, 101, 100>>  \* "Uncategorized"
V_series == <<115, 101, 114, 105, 101, 115>>                      \* "series"
V_movie  == <<109, 111, 118, 105, 101>>                           \* "movie"
V_live   == <<108, 105, 118, 101>>                                \* "live"
TvgSeriesTypes == { <<115, 101, 114, 105, 101>>, V_series,
                    <<101, 112, 105, 115, 111, 100, 101>> }       \* "serie", "series", "episode"
TvgMovieTypes  == { V_movie, <<102, 105, 108, 109>> }             \* "movie", "film"
SeriesPatterns == { <<115, d>> : d \in 48..57 } \cup { <<101, d>> : d \in 48..57 }
                  \cup { <<115, 101, 97, 115, 111, 110>>,
                         <<101, 112, 105, 115, 111, 100, 101>> }  \* "s0".."s9", "e0".."e9", "season", "episode"
MoviePatterns  == { V_movie, <<102, 105, 108, 109>>,
                    <<40, 50, 48>>, <<40, 49, 57>> }              \* "movie", "film", "(20", "(19"

NL    == 10    \* "\n"
COMMA == 44    \* ","
MINUS == 45    \* "-"
EQ    == 61    \* "="
BOM   == 65279 \* U+FEFF

\* ------------------------------------------------------------------------
\* str methods and character classes (code points below U+0800)
\* ------------------------------------------------------------------------
\* str.isspace() / regex \s
Whitespace == {9, 10, 11, 12, 13, 28, 29, 30, 31, 32, 133, 160}
\* regex \d
Digit == (48..57) \cup (1632..1641) \cup (1776..1785) \cup (1984..1993)
\* regex [a-zA-Z0-9_-]
KeyChar == (97..122) \cup (65..90) \cup (48..57) \cup {95, 45}
\* regex ["']
Quote == {34, 39}

Drop(s, n) == SubSeq(s, n + 1, Len(s))
Take(s, n) == SubSeq(s, 1, n)

\* str.startswith
StartsWith(s, p) == Len(s) >= Len(p) /\ Take(s, Len(p)) = p

\* the in operator on strings: p in s
Contains(s, p) == \E i \in 0..(Len(s) - Len(p)) : SubSeq(s, i + 1, i + Len(p)) = p

\* str.strip()
Strip(s) ==
    IF \A i \in 1..Len(s) : s[i] \in Whitespace THEN <<>>
    ELSE SubSeq(s,
                CHOOSE i \in 1..Len(s) :
                    s[i] \notin Whitespace /\ \A j \in 1..(i - 1) : s[j] \in Whitespace,
                CHOOSE i \in 1..Len(s) :
                    s[i] \notin Whitespace /\ \A j \in (i + 1)..Len(s) : s[j] \in Whitespace)

\* str.lower(), one code point
LowerChar(c) ==
    IF c \in 65..90 THEN c + 32
    ELSE IF c \in 192..222 /\ c # 215 THEN c + 32
    ELSE c

\* str.lower() (code points below U+0100)
Lower(s) == [i \in 1..Len(s) |-> LowerChar(s[i])]

\* the pieces of s between its newlines, whose positions in ascending order
\* are ns: the k-th piece runs from after the (k-1)-th newline up to the
\* k-th, or to the end
SplitAt(s, ns) ==
    [k \in 1..(Len(ns) + 1) |->
        SubSeq(s,
               IF k = 1 THEN 1 ELSE ns[k - 1] + 1,
               IF k > Len(ns) THEN Len(s) ELSE ns[k] - 1)]

\* the positions of the newlines of s, ascending
NewlinePositions(s) ==
    SelectSeq([i \in 1..Len(s) |-> IF s[i] = NL THEN i ELSE 0], LAMBDA x : x > 0)

\* str.split("\n"): the pieces between newlines, at least one piece
SplitNL(s) == SplitAt(s, NewlinePositions(s))

\* ------------------------------------------------------------------------
\* dict: a function from keys to values; <<>> is the empty dict {}
\* ------------------------------------------------------------------------
EmptyDict == <<>>
DictSet(d, k, v) == [x \in (DOMAIN d) \cup {k} |-> IF x = k THEN v ELSE d[x]]
DictGet(d, k, default) == IF k \in DOMAIN d THEN d[k] ELSE default
DictSetDefault(d, k, v) == IF k \in DOMAIN d THEN d ELSE DictSet(d, k, v)
Truthy(d) == DOMAIN d # {}

\* ------------------------------------------------------------------------
\* M3UParser._parse_extinf_line
\* ------------------------------------------------------------------------
\* length of the longest prefix of s made of characters of class cls
RECURSIVE RunLen(_, _)
RunLen(s, cls) ==
    IF s # <<>> /\ s[1] \in cls THEN 1 + RunLen(Tail(s), cls) ELSE 0

\* position of the first character of s that is in cls, 0 when there is none
FirstIn(s, cls) ==
    LET hits == { i \in 1..Len(s) : s[i] \in cls }
    IN  IF hits = {} THEN 0 ELSE CHOOSE i \in hits : \A j \in hits : i <= j

\* re.match(r"#EXTINF:(?P<duration>-?\d+)(?:\s+(?P<attributes>.*?))?,(?P<name>.*)", line)
\* matched: whether the pattern matches; hasAttrs: whether the optional
\* group took part; attributes and name as captured.
ExtinfMatch(line) ==
    LET nomatch == [matched |-> FALSE, duration |-> <<>>, hasAttrs |-> FALSE,
                    attributes |-> <<>>, name |-> <<>>]
    IN  IF ~StartsWith(line, S_EXTINF) THEN nomatch
        ELSE LET r1   == Drop(line, Len(S_EXTINF))
                 sign == IF r1 # <<>> /\ r1[1] = MINUS THEN 1 ELSE 0
                 nd   == RunLen(Drop(r1, sign), Digit)
                 dur  == Take(r1, sign + nd)
                 r2   == Drop(r1, sign + nd)
                 ws   == RunLen(r2, Whitespace)
                 r3   == Drop(r2, ws)
                 c    == FirstIn(r3, {COMMA})
             IN  IF nd = 0 THEN nomatch
                 ELSE IF ws > 0 /\ c > 0
                      THEN [matched |-> TRUE, duration |-> dur, hasAttrs |-> TRUE,
                            attributes |-> Take(r3, c - 1), name |-> Drop(r3, c)]
                 ELSE IF ws = 0 /\ r2 # <<>> /\ r2[1] = COMMA
                      THEN [matched |-> TRUE, duration |-> dur, hasAttrs |-> FALSE,
                            attributes |-> <<>>, name |-> Tail(r2)]
                 ELSE nomatch

\* re.match(r"#EXTINF:(?P<duration>-?\d+),(?P<name>.*)", line)
SimpleMatch(line) ==
    IF ~StartsWith(line, S_EXTINF) THEN FALSE
    ELSE LET r1   == Drop(line, Len(S_EXTINF))
             sign == IF r1 # <<>> /\ r1[1] = MINUS THEN 1 ELSE 0
             nd   == RunLen(Drop(r1, sign), Digit)
             r2   == Drop(r1, sign + nd)
         IN  nd > 0 /\ r2 # <<>> /\ r2[1] = COMMA

\* re.findall(r'([a-zA-Z0-9_-]+)=["\'](.*?)["\']', attributes_str) folded
\* into info: info[key.lower()] = value for each match, left to right
RECURSIVE ApplyAttrs(_, _)
ApplyAttrs(info, s) ==
    IF s = <<>> THEN info
    ELSE LET kl    == RunLen(s, KeyChar)
             rest  == Drop(s, kl)
             open  == kl > 0 /\ Len(rest) >= 2 /\ rest[1] = EQ /\ rest[2] \in Quote
             body  == Drop(rest, 2)
             close == IF open THEN FirstIn(body, Quote) ELSE 0
         IN  IF open /\ close > 0
             THEN ApplyAttrs(DictSet(info, Lower(Take(s, kl)), Take(body, close - 1)),
                             Drop(body, close))
             ELSE ApplyAttrs(info, Tail(s))

\* lines 463-477: content type from tvg-type, else from name patterns
ContentType(info) ==
    LET tvg_type == Lower(DictGet(info, K_tvg_type, <<>>))
        name     == Lower(DictGet(info, K_name, <<>>))
    IN  IF tvg_type \in TvgSeriesTypes THEN V_series
        ELSE IF tvg_type \in TvgMovieTypes THEN V_movie
        ELSE IF \E p \in SeriesPatterns : Contains(name, p) THEN V_series
        ELSE IF \E p \in MoviePatterns : Contains(name, p) THEN V_movie
        ELSE V_live

\* FillDefaults with the slip of filling tvg-name in only when the header
\* has no such attribute
FillDefaults_KeepsEmptyTvgName(info) ==
    LET i3 == IF K_tvg_name \notin DOMAIN info
              THEN DictSet(info, K_tvg_name, info[K_name]) ELSE info
        i4 == DictSetDefault(DictSetDefault(DictSetDefault(i3,
                  K_tvg_id, <<>>), K_tvg_logo, <<>>),
                  K_group_title, V_Uncategorized)
    IN  DictSet(i4, K_content_type, ContentType(i4))

\* lines 454-477: tvg-name falls back to name when missing or empty, the
\* three setdefault calls, then the content type
FillDefaults(info) ==
    LET i3 == IF K_tvg_name \notin DOMAIN info \/ info[K_tvg_name] = <<>>
              THEN DictSet(info, K_tvg_name, info[K_name]) ELSE info
        i4 == DictSetDefault(DictSetDefault(DictSetDefault(i3,
                  K_tvg_id, <<>>), K_tvg_logo, <<>>),
                  K_group_title, V_Uncategorized)
    IN  DictSet(i4, K_content_type, ContentType(i4))

\* lines 437-452: duration and name from the match, then the attributes
MatchInfo(m) ==
    LET i1 == DictSet(DictSet(EmptyDict, K_duration, m.duration),
                      K_name, Strip(m.name))
    IN  IF m.hasAttrs /\ m.attributes # <<>>
        THEN ApplyAttrs(i1, m.attributes) ELSE i1

\* _parse_extinf_line(line): [raised, info].  The fallback branch reads
\* simple_match.group("n"), a group the pattern does not define, which
\* raises IndexError; the main branch catches the same IndexError and reads
\* group "name".
ParseExtinfLine(line) ==
    LET m == ExtinfMatch(line)
    IN  IF ~m.matched
        THEN IF SimpleMatch(line)
             THEN [raised |-> TRUE, info |-> EmptyDict]
             ELSE [raised |-> FALSE, info |-> EmptyDict]
        ELSE [raised |-> FALSE, info |-> FillDefaults(MatchInfo(m))]

\* ------------------------------------------------------------------------
\* bytes.decode(encoding, errors="ignore")
\* ------------------------------------------------------------------------
IsCont(b) == b \in 128..191

\* number of continuation bytes a UTF-8 lead byte announces, 0 for a byte
\* that cannot start a multi-byte sequence
Utf8Need(b) ==
    IF b \in 194..223 THEN 1
    ELSE IF b \in 224..239 THEN 2
    ELSE IF b \in 240..244 THEN 3
    ELSE 0

\* whether c is an allowed first continuation byte after lead byte b
Utf8FirstContOk(b, c) ==
    IF b = 224 THEN c \in 160..191
    ELSE IF b = 237 THEN c \in 128..159
    ELSE IF b = 240 THEN c \in 144..191
    ELSE IF b = 244 THEN c \in 128..143
    ELSE IsCont(c)

\* whether a complete, valid UTF-8 multi-byte sequence starts at bs[j]
Utf8SeqOk(bs, j) ==
    LET n == Utf8Need(bs[j])
    IN  /\ n > 0
        /\ Len(bs) >= j + n
        /\ Utf8FirstContOk(bs[j], bs[j + 1])
        /\ \A i \in (j + 2)..(j + n) : IsCont(bs[i])

\* code point of the valid sequence that starts at bs[j]
Utf8CodePoint(bs, j) ==
    LET n == Utf8Need(bs[j])
    IN  IF n = 1 THEN (bs[j] - 192) * 64 + (bs[j + 1] - 128)
        ELSE IF n = 2 THEN (bs[j] - 224) * 4096 + (bs[j + 1] - 128) * 64
                           + (bs[j + 2] - 128)
        ELSE (bs[j] - 240) * 262144 + (bs[j + 1] - 128) * 4096
             + (bs[j + 2] - 128) * 64 + (bs[j + 3] - 128)

\* what the byte at position j contributes to the decoded text: an ASCII
\* byte itself, the lead byte of a valid sequence its code point, any other
\* byte nothing (errors="ignore"), written -1.  ASCII and lead bytes are
\* never continuation bytes, so this depends on bs[j..j+3] only.
Utf8At(bs, j) ==
    IF bs[j] < 128 THEN bs[j]
    ELSE IF Utf8SeqOk(bs, j) THEN Utf8CodePoint(bs, j)
    ELSE -1

\* bytes.decode("utf-8", errors="ignore")
DecodeUtf8Ignore(bs) ==
    SelectSeq([j \in 1..Len(bs) |-> Utf8At(bs, j)], LAMBDA c : c >= 0)

\* whether bytes.decode("utf-8") (strict) succeeds: every byte is ASCII,
\* starts a valid sequence, or is a continuation byte of one
Utf8Valid(bs) ==
    \A j \in 1..Len(bs) :
        \/ bs[j] < 128
        \/ Utf8SeqOk(bs, j)
        \/ \E k \in 1..3 : /\ j - k >= 1
                           /\ Utf8Need(bs[j - k]) >= k
                           /\ Utf8SeqOk(bs, j - k)

\* the k-th 16-bit code unit of bs, big- or little-endian
Utf16Unit(bs, k, big) ==
    IF big THEN bs[2 * k - 1] * 256 + bs[2 * k]
    ELSE bs[2 * k] * 256 + bs[2 * k - 1]

IsHighSurrogate(u) == u \in 55296..56319
IsLowSurrogate(u)  == u \in 56320..57343

\* whether bytes.decode("utf-16-le" / "utf-16-be") (strict) succeeds: whole
\* code units, every high surrogate followed by a low one and every low
\* one preceded by a high one
Utf16Valid(bs, big) ==
    /\ Len(bs) % 2 = 0
    /\ \A k \in 1..(Len(bs) \div 2) :
        /\ IsHighSurrogate(Utf16Unit(bs, k, big))
              => /\ k < Len(bs) \div 2
                 /\ IsLowSurrogate(Utf16Unit(bs, k + 1, big))
        /\ IsLowSurrogate(Utf16Unit(bs, k, big))
              => /\ k > 1
                 /\ IsHighSurrogate(Utf16Unit(bs, k - 1, big))

\* what the k-th code unit contributes to the decoded text: a high
\* surrogate with its low one their code point, a low surrogate or a lone
\* high one nothing (written -1), any other unit itself
Utf16At(bs, k, big) ==
    LET u == Utf16Unit(bs, k, big)
    IN  IF IsHighSurrogate(u)
        THEN IF k < Len(bs) \div 2 /\ IsLowSurrogate(Utf16Unit(bs, k + 1, big))
             THEN 65536 + (u - 55296) * 1024 + (Utf16Unit(bs, k + 1, big) - 56320)
             ELSE -1
        ELSE IF IsLowSurrogate(u) THEN -1
        ELSE u

\* bytes.decode("utf-16-le" / "utf-16-be", errors="ignore"); an odd last
\* byte is dropped
DecodeUtf16Ignore(bs, big) ==
    SelectSeq([k \in 1..(Len(bs) \div 2) |-> Utf16At(bs, k, big)], LAMBDA c : c >= 0)

BOM_UTF8    == <<239, 187, 191>>
BOM_UTF16LE == <<255, 254>>
BOM_UTF16BE == <<254, 255>>

\* the bytes cp1252 has no character for
Cp1252Undefined == { 129, 141, 143, 144, 157 }

\* the characters of the cp1252 bytes 128..159, -1 for the undefined ones
Cp1252High ==
    << 8364, -1, 8218, 402, 8222, 8230, 8224, 8225, 710, 8240, 352, 8249, 338, -1,
       381, -1, -1, 8216, 8217, 8220, 8221, 8226, 8211, 8212, 732, 8482, 353,
       8250, 339, -1, 382, 376 >>

\* bytes.decode("cp1252", errors="ignore")
DecodeCp1252Ignore(bs) ==
    SelectSeq([j \in 1..Len(bs) |->
                  IF bs[j] \in 128..159 THEN Cp1252High[bs[j] - 127] ELSE bs[j]],
              LAMBDA c : c >= 0)

\* bytes.decode(encoding, errors="ignore") for the encodings the detector
\* returns.  utf-8-sig drops a byte-order-mark at the head of the bytes it
\* is given, on every call; utf-16 reads a byte-order-mark there as the
\* byte order of these bytes and is little-endian without one.
Decode(bs, encoding) ==
    IF encoding = "utf-8" THEN DecodeUtf8Ignore(bs)
    ELSE IF encoding = "utf-8-sig"
         THEN IF StartsWith(bs, BOM_UTF8) THEN DecodeUtf8Ignore(Drop(bs, 3))
              ELSE DecodeUtf8Ignore(bs)
    ELSE IF encoding = "utf-16"
         THEN IF StartsWith(bs, BOM_UTF16LE) THEN DecodeUtf16Ignore(Drop(bs, 2), FALSE)
              ELSE IF StartsWith(bs, BOM_UTF16BE) THEN DecodeUtf16Ignore(Drop(bs, 2), TRUE)
              ELSE DecodeUtf16Ignore(bs, FALSE)
    ELSE IF encoding = "utf-16le" THEN DecodeUtf16Ignore(bs, FALSE)
    ELSE IF encoding = "utf-16be" THEN DecodeUtf16Ignore(bs, TRUE)
    ELSE IF encoding = "cp1252" THEN DecodeCp1252Ignore(bs)
    ELSE bs   \* latin-1, iso-8859-1: byte b is code point b

\* whether bytes.decode(encoding) (strict) succeeds
DecodesStrictly(bs, encoding) ==
    IF encoding = "utf-8" THEN Utf8Valid(bs)
    ELSE IF encoding = "utf-16"
         THEN IF StartsWith(bs, BOM_UTF16LE) THEN Utf16Valid(Drop(bs, 2), FALSE)
              ELSE IF StartsWith(bs, BOM_UTF16BE) THEN Utf16Valid(Drop(bs, 2), TRUE)
              ELSE Utf16Valid(bs, FALSE)
    ELSE IF encoding = "utf-16le" THEN Utf16Valid(bs, FALSE)
    ELSE IF encoding = "utf-16be" THEN Utf16Valid(bs, TRUE)
    ELSE IF encoding = "cp1252" THEN \A j \in 1..Len(bs) : bs[j] \notin Cp1252Undefined
    ELSE TRUE

\* ------------------------------------------------------------------------
\* M3UParser._detect_encoding_from_bytes
\* ------------------------------------------------------------------------
DetectSample == 1024

HasMarker(text) == Contains(text, S_EXTM3U) \/ Contains(text, S_EXTINF_TAG)

\* encodings_to_try with the slip of trying Latin-1, which decodes any
\* bytes, before the encodings that can fail
encodings_to_try_Latin1First ==
    << "latin-1", "utf-8", "utf-16", "utf-16le", "utf-16be", "cp1252", "iso-8859-1" >>

\* line 390
encodings_to_try ==
    << "utf-8", "utf-16", "utf-16le", "utf-16be", "latin-1", "cp1252", "iso-8859-1" >>

\* lines 392-402: the loop over the encodings from the i-th on, and the
\* fallback of line 402
RECURSIVE TryEncodings(_, _)
TryEncodings(test_data, i) ==
    IF i > Len(encodings_to_try) THEN "utf-8"
    ELSE IF /\ DecodesStrictly(test_data, encodings_to_try[i])
            /\ HasMarker(Decode(test_data, encodings_to_try[i]))
         THEN encodings_to_try[i]
    ELSE TryEncodings(test_data, i + 1)

DetectEncoding(file) ==
    LET raw_data  == Take(file, IF Len(file) < 4 THEN Len(file) ELSE 4)
        test_data == Take(file, IF Len(file) < DetectSample THEN Len(file) ELSE DetectSample)
    IN  IF StartsWith(raw_data, BOM_UTF16LE) THEN "utf-16le"
        ELSE IF StartsWith(raw_data, BOM_UTF16BE) THEN "utf-16be"
        ELSE IF StartsWith(raw_data, BOM_UTF8) THEN "utf-8-sig"
        ELSE TryEncodings(test_data, 1)

\* ------------------------------------------------------------------------
\* The record state machine shared by _parse_content_with_progress and
\* _parse_content
\* ------------------------------------------------------------------------
\* An entry is referred to by its position in channels: the dict appended
\* to self.channels and the one appended to its category list are the same
\* object, and channels only grows during a parse.  categories is the
\* insertion-ordered dict, a sequence of [name, members].

\* CategoryAppend with the slip of assigning a fresh list to a category that
\* already has one
CategoryAppend_Overwrite(cats, group_title, ref) ==
    IF \E i \in 1..Len(cats) : cats[i].name = group_title
    THEN [i \in 1..Len(cats) |->
            IF cats[i].name = group_title
            THEN [cats[i] EXCEPT !.members = <<ref>>]
            ELSE cats[i]]
    ELSE Append(cats, [name |-> group_title, members |-> <<ref>>])

\* CategoryAppend with the slip of putting a new category first
CategoryAppend_Front(cats, group_title, ref) ==
    IF \E i \in 1..Len(cats) : cats[i].name = group_title
    THEN [i \in 1..Len(cats) |->
            IF cats[i].name = group_title
            THEN [cats[i] EXCEPT !.members = Append(@, ref)]
            ELSE cats[i]]
    ELSE <<[name |-> group_title, members |-> <<ref>>]>> \o cats

\* self.categories[group_title].append(entry), creating the list on first sight
CategoryAppend(cats, group_title, ref) ==
    IF \E i \in 1..Len(cats) : cats[i].name = group_title
    THEN [i \in 1..Len(cats) |->
            IF cats[i].name = group_title
            THEN [cats[i] EXCEPT !.members = Append(@, ref)]
            ELSE cats[i]]
    ELSE Append(cats, [name |-> group_title, members |-> <<ref>>])

\* StoreEntry with the slip of leaving the header pending after its entry
\* was stored
StoreEntry_KeepsPending(b, line) ==
    LET entry == DictSet(b.current_channel_info, K_url, line)
        chans == Append(b.channels, entry)
    IN  [b EXCEPT !.channels = chans,
                  !.categories = CategoryAppend(b.categories,
                                     DictGet(entry, K_group_title, V_Uncategorized),
                                     Len(chans)),
                  !.channels_processed = @ + 1]

\* lines 252-263 / 344-354: complete the pending header with its url,
\* store it, index it, clear the pending header
StoreEntry(b, line) ==
    LET entry == DictSet(b.current_channel_info, K_url, line)
        chans == Append(b.channels, entry)
    IN  [b EXCEPT !.channels = chans,
                  !.categories = CategoryAppend(b.categories,
                                     DictGet(entry, K_group_title, V_Uncategorized),
                                     Len(chans)),
                  !.current_channel_info = EmptyDict,
                  !.channels_processed = @ + 1]

\* ProcessLine with the slip of storing a url line without looking at the
\* pending header
ProcessLine_NoPendingCheck(b, raw) ==
    LET line == Strip(raw)
    IN  IF line = <<>> THEN b
        ELSE IF StartsWith(line, S_EXTINF)
             THEN LET r == ParseExtinfLine(line)
                  IN  [b EXCEPT !.current_channel_info =
                                    IF r.raised THEN EmptyDict ELSE r.info]
        ELSE IF StartsWith(line, S_EXTVLCOPT) \/ StartsWith(line, S_EXTGRP) THEN b
        ELSE IF ~StartsWith(line, S_HASH) THEN StoreEntry(b, line)
        ELSE b

\* ProcessLine with the slip of keeping the pending header when the
\* #EXTINF line is malformed
ProcessLine_KeepPending(b, raw) ==
    LET line == Strip(raw)
    IN  IF line = <<>> THEN b
        ELSE IF StartsWith(line, S_EXTINF)
             THEN LET r == ParseExtinfLine(line)
                  IN  [b EXCEPT !.current_channel_info =
                                    IF r.raised \/ ~Truthy(r.info) THEN @ ELSE r.info]
        ELSE IF StartsWith(line, S_EXTVLCOPT) \/ StartsWith(line, S_EXTGRP) THEN b
        ELSE IF ~StartsWith(line, S_HASH)
             THEN IF Truthy(b.current_channel_info) THEN StoreEntry(b, line) ELSE b
        ELSE b

\* ProcessLine with the slip of dropping the pending header at a line that
\* starts with "#" and is no #EXTINF: line
ProcessLine_DirectiveClears(b, raw) ==
    LET line == Strip(raw)
    IN  IF line = <<>> THEN b
        ELSE IF StartsWith(line, S_EXTINF)
             THEN LET r == ParseExtinfLine(line)
                  IN  [b EXCEPT !.current_channel_info =
                                    IF r.raised THEN EmptyDict ELSE r.info]
        ELSE IF ~StartsWith(line, S_HASH)
             THEN IF Truthy(b.current_channel_info) THEN StoreEntry(b, line) ELSE b
        ELSE [b EXCEPT !.current_channel_info = EmptyDict]

\* lines 232-263 / 327-354: one line of the loop body
ProcessLine(b, raw) ==
    LET line == Strip(raw)
    IN  IF line = <<>> THEN b
        ELSE IF StartsWith(line, S_EXTINF)
             THEN LET r == ParseExtinfLine(line)
                  IN  [b EXCEPT !.current_channel_info =
                                    IF r.raised THEN EmptyDict ELSE r.info]
        ELSE IF StartsWith(line, S_EXTVLCOPT) \/ StartsWith(line, S_EXTGRP) THEN b
        ELSE IF ~StartsWith(line, S_HASH)
             THEN IF Truthy(b.current_channel_info) THEN StoreEntry(b, line) ELSE b
        ELSE b

\* the loop of lines 230 / 326 over the lines ls, as the first half of the
\* lines and then the second.  The test of the count, which is never
\* negative, has the first half evaluated before the second is begun.
RECURSIVE ProcessLines(_, _)
ProcessLines(b, ls) ==
    IF ls = <<>> THEN b
    ELSE IF Len(ls) = 1 THEN ProcessLine(b, ls[1])
    ELSE LET mid == ProcessLines(b, SubSeq(ls, 1, Len(ls) \div 2))
         IN  IF mid.channels_processed >= 0
             THEN ProcessLines(mid, SubSeq(ls, Len(ls) \div 2 + 1, Len(ls)))
             ELSE mid

\* FlushBuffer with the slip of storing the last entry without counting it
FlushBuffer_NotCounted(b, line_buf) ==
    LET line == Strip(line_buf)
    IN  IF line # <<>> /\ ~StartsWith(line, S_HASH) /\ Truthy(b.current_channel_info)
        THEN [StoreEntry(b, line) EXCEPT
                 !.current_channel_info = DictSet(b.current_channel_info, K_url, line),
                 !.channels_processed = b.channels_processed]
        ELSE b

\* lines 281-293: the buffered last fragment, processed only as a url
FlushBuffer(b, line_buf) ==
    LET line == Strip(line_buf)
    IN  IF line # <<>> /\ ~StartsWith(line, S_HASH) /\ Truthy(b.current_channel_info)
        THEN [StoreEntry(b, line) EXCEPT
                 !.current_channel_info = DictSet(b.current_channel_info, K_url, line)]
        ELSE b

EmptyBuild == [channels |-> <<>>, categories |-> <<>>,
               current_channel_info |-> EmptyDict, channels_processed |-> 0]

\* lines 218-228: strip a leading U+FEFF when the line buffer is empty, join
\* with the buffer, split; the last piece is the new buffer
SplitChunk(line_buf, chunk_text) ==
    LET text  == IF line_buf = <<>> /\ chunk_text # <<>> /\ chunk_text[1] = BOM
                 THEN Tail(chunk_text) ELSE chunk_text
        parts == SplitNL(line_buf \o text)
    IN  [lines |-> Take(parts, Len(parts) - 1), line_buffer |-> parts[Len(parts)]]

\* file_obj.read(n) at position pos
ReadBytes(f, pos, n) ==
    SubSeq(f, pos + 1, IF pos + n > Len(f) THEN Len(f) ELSE pos + n)

\* _parse_content_with_progress over a source that fits in one chunk, with
\* no progress sink: one read, all complete lines, then the flush
OnePass(f) ==
    LET split == SplitChunk(<<>>, Decode(f, DetectEncoding(f)))
    IN  FlushBuffer(ProcessLines(EmptyBuild, split.lines), split.line_buffer)

\* ------------------------------------------------------------------------
\* Progress
\* ------------------------------------------------------------------------
progress_update_interval == 100

\* the pairs (bytes_read, file_size) for which the float expression
\* (bytes_read / file_size) * 100 falls just short of the exact quotient, so
\* int() gives one less than bytes_read * 100 // file_size: all such pairs
\* with file_size below 200, and the one the long playlist meets
FloatShort == { <<29, 50>>, <<29, 100>>, <<57, 100>>, <<58, 100>>, <<87, 150>>,
                <<1767, 3100>> }

\* Percent with the slip of reporting the share of the source still unread
Percent_Unread(bytes, size) ==
    LET q == (((size - bytes) * 100) \div size)
    IN  IF q > 100 THEN 100 ELSE IF q < 0 THEN 0 ELSE q

\* line 272: min(100, int((bytes_read / file_size) * 100))
Percent(bytes, size) ==
    LET q == ((bytes * 100) \div size) - (IF <<bytes, size>> \in FloatShort THEN 1 ELSE 0)
    IN  IF q > 100 THEN 100 ELSE q

\* ------------------------------------------------------------------------
\* Bounds and inputs
\* ------------------------------------------------------------------------
MaxBlocks  == 3    \* blocks of a source file
SmallChunk == 7    \* the small chunk size a caller may set instead of the default
MaxSlow    == 1    \* chunk iterations of one parse that take more than 500 ms
MaxCalls   == 3    \* parsing calls made for one source path

DefaultChunkSize == 32768

\* the blocks source files are made of
HdrN   == <<35, 69, 88, 84, 73, 78, 70, 58, 45, 49, 32, 103, 114, 111, 117, 112, 45,
            116, 105, 116, 108, 101, 61, 34, 78, 34, 44, 65>>  \* #EXTINF:-1 group-title="N",A
HdrU   == <<35, 69, 88, 84, 73, 78, 70, 58, 45, 49, 44, 66>>   \* #EXTINF:-1,B
HdrBad == <<35, 69, 88, 84, 73, 78, 70, 58, 120>>              \* #EXTINF:x
UrlH   == <<104, 195, 169>>                                    \* h\xc3\xa9 (UTF-8 of U+00E9)
UrlV   == <<118, 13>>                                          \* v\r
BlockLib == { HdrN \o <<NL>> \o UrlH, HdrU \o <<NL>> \o UrlV, HdrU, HdrBad, UrlH, <<>> }

RECURSIVE JoinNL(_)
JoinNL(ls) ==
    IF ls = <<>> THEN <<>>
    ELSE IF Len(ls) = 1 THEN ls[1]
    ELSE ls[1] \o <<NL>> \o JoinNL(Tail(ls))

\* the source files: 0..MaxBlocks blocks joined by "\n"; an empty last
\* block makes the file end with "\n"
Files ==
    { <<>> } \cup
    UNION { { JoinNL(ls) : ls \in [1..n -> BlockLib] } : n \in 1..MaxBlocks }

ChunkSizes == { SmallChunk, DefaultChunkSize }

\* the contents the cached source takes: no entry, one entry in as many
\* bytes, and two entries in two categories
CacheFiles ==
    { JoinNL(<<UrlV, HdrU>>),
      JoinNL(<<HdrU, UrlV>>),
      JoinNL(<<HdrN, UrlH, HdrU, UrlV>>) }

\* what save_cache does in a run: it stores the entry, returns False, or raises
SaveModes == { "ok", "fails", "raises" }

\* s repeated n times
Repeat(s, n) == [i \in 1..(n * Len(s)) |-> s[((i - 1) % Len(s)) + 1]]

\* a long playlist: a padded "#EXTM3U" line, one entry more than the
\* progress interval, and an unterminated comment line
LongHeader  == S_EXTM3U \o Repeat(<<32>>, 1759) \o <<NL>>
LongEntry   == <<35, 69, 88, 84, 73, 78, 70, 58, 48, 44, NL, 117, NL>>  \* #EXTINF:0,\nu\n
LongEntries == progress_update_interval + 1
LongTail    == S_HASH \o Repeat(<<MINUS>>, 19)
LongFile    == LongHeader \o Repeat(LongEntry, LongEntries) \o LongTail

\* the chunk size under which the first chunk of LongFile is its header line
LongChunk == Len(LongHeader)

\* ------------------------------------------------------------------------
\* Sources of one entry, for the attributes of its header
\* ------------------------------------------------------------------------
\* the tvg-name attribute of a header: none, an empty one, one with a value
TvgNameAttrs ==
    { <<>>,                                                     \* nothing
      <<32, 116, 118, 103, 45, 110, 97, 109, 101, 61, 34, 34>>, \* tvg-name=""
      <<32, 116, 118, 103, 45, 110, 97, 109, 101, 61, 34, 84, 34>> } \* tvg-name="T"

\* the tvg-id attribute of a header
TvgIdAttrs ==
    { <<>>,                                                     \* nothing
      <<32, 116, 118, 103, 45, 105, 100, 61, 34, 73, 34>> }     \* tvg-id="I"

\* the group-title attribute of a header
GroupAttrs ==
    { <<>>,                                                     \* nothing
      <<32, 103, 114, 111, 117, 112, 45, 116, 105, 116, 108, 101, 61, 34, 34>>, \* group-title=""
      <<32, 103, 114, 111, 117, 112, 45, 116, 105, 116, 108, 101, 61, 34, 71, 34>> } \* group-title="G"

\* the tvg-type attribute of a header
TvgTypeAttrs ==
    { <<>>,                                                     \* nothing
      <<32, 116, 118, 103, 45, 116, 121, 112, 101, 61, 34, 83, 101, 114, 105, 101, 34>>, \* tvg-type="Serie"
      <<32, 116, 118, 103, 45, 116, 121, 112, 101, 61, 34, 101, 112, 105, 115, 111, 100, 101, 34>>, \* tvg-type="episode"
      <<32, 116, 118, 103, 45, 116, 121, 112, 101, 61, 34, 109, 111, 118, 105, 101, 34>>, \* tvg-type="movie"
      <<32, 116, 118, 103, 45, 116, 121, 112, 101, 61, 34, 70, 73, 76, 77, 34>>, \* tvg-type="FILM"
      <<32, 116, 118, 103, 45, 116, 121, 112, 101, 61, 34, 116, 118, 34>> } \* tvg-type="tv"

\* the display names of a header
EntryNames ==
    { <<78, 101, 119, 115>>,                                    \* News
      <<78, 101, 119, 115, 32, 40, 49, 57, 41>>,                \* News (19)
      <<84, 111, 112, 32, 40, 49, 57, 57, 57, 41>>,             \* Top (1999)
      <<77, 121, 32, 70, 105, 108, 109>>,                       \* My Film
      <<83, 48, 49, 32, 109, 111, 118, 105, 101>>,              \* S01 movie
      <<83, 101, 97, 115, 111, 110, 32, 40, 50, 48, 50, 48, 41>>, \* Season (2020)
      <<>> }                                                    \* nothing

\* "#EXTINF:-1" with the attributes, ",", the display name, and the url
\* line "u" without a newline after it
ExtinfFiles ==
    { <<35, 69, 88, 84, 73, 78, 70, 58, 45, 49>> \o tn \o ti \o g \o tt
          \o <<COMMA>> \o n \o <<NL, 117>> :
        tn \in TvgNameAttrs, ti \in TvgIdAttrs, g \in GroupAttrs,
        tt \in TvgTypeAttrs, n \in EntryNames }

\* ------------------------------------------------------------------------
\* State
\* ------------------------------------------------------------------------
VARIABLES
    file,                 \* bytes of the source file
    chunk_size,           \* self.chunk_size
    progress_callback,    \* whether self.progress_callback is set
    process_events,       \* self._process_events: "None" or "callable"
    should_cancel,        \* self._should_cancel
    channels,             \* self.channels
    categories,           \* self.categories
    pc,                   \* position of the parsing call
    current_channel_info, \* local: the pending header, EmptyDict when none
    channels_processed,   \* local
    bytes_read,           \* local; also the position of file_obj
    line_buffer,          \* local
    detected_encoding,    \* local
    lines,                \* local: lines of the current chunk not yet processed
    raised,               \* whether the try block of the builder was left by an exception
    emissions,            \* calls received by the progress sink, in order
    slow,                 \* chunk iterations so far that took more than 500 ms
    result,               \* <<>> until the call returns, then <<[channels, categories]>>
    cache,                \* cache store: <<>> or <<[fingerprint, channels, categories]>>
    cancel_observed,      \* history: the loop was left at line 191-192
    cancel_requested,     \* history: cancel_parsing was called since construction
    cancelled_at,         \* history: len(self.channels) when the flag was last raised, -1 before
    cancelled_pc,         \* history: position of the parsing call when the flag was last raised
    chunks_after_cancel,  \* history: chunks read after cancel_parsing was first called
    api,                  \* history: which entry point ran, "none", "file" or "content"
    mtime,                \* modification time of the source file
    save_mode,            \* what save_cache does: "ok", "fails" (returns False) or "raises"
    calls,                \* number of the parsing call being made or last made, from 1
    opens,                \* history: times the source file was opened
    saves,                \* history: times save_cache was called
    hit,                  \* history: the call was served from the cache
    prev_call,            \* history: the previous call (its result, how it ended), <<>> before
    since_return,         \* history: what happened to source and cache since the last return
    enable_cache,         \* self.enable_cache with a cache manager at hand
    fault,                \* what fails during the call: "none", or one of Faults
    obj,                  \* identity of the list and dict bound to self.channels, self.categories
    handed,               \* history: the results handed to callers, as the callers see them
    manager_calls,        \* history: methods of the cache manager invoked since the last return
    returned,             \* what the last cache method of the parser returned, "nothing" before
    thread,               \* the M3UParseThread that runs the parser, and the call that cancels it
    favorites_manager     \* a FavoritesManager: its favorites, custom_categories, last return value

vars == <<file, chunk_size, progress_callback, process_events, should_cancel,
          channels, categories, pc, current_channel_info, channels_processed,
          bytes_read, line_buffer, detected_encoding, lines, raised, emissions,
          slow, result, cache, cancel_observed, cancel_requested, cancelled_at,
          cancelled_pc, chunks_after_cancel, api, mtime, save_mode, calls,
          opens, saves, hit, prev_call, since_return, enable_cache, fault,
          obj, handed, manager_calls, returned, thread,
          favorites_manager>>

config  == <<file, chunk_size, progress_callback, mtime, save_mode, enable_cache, fault>>
heap    == <<obj, handed>>
calllog == <<calls, opens, saves, hit, prev_call, since_return, manager_calls,
             returned, thread, favorites_manager>>
locals  == <<current_channel_info, channels_processed, bytes_read, line_buffer,
             detected_encoding, lines, raised>>
history == <<cancel_observed, cancel_requested, cancelled_at, cancelled_pc,
             chunks_after_cancel>>

\* the builder's view of the variables ProcessLine works on
Build == [channels |-> channels, categories |-> categories,
          current_channel_info |-> current_channel_info,
          channels_processed |-> channels_processed]

\* no M3UParseThread: the parser is used by its caller directly
NoThread == [run |-> "none", should_cancel |-> FALSE, parser |-> FALSE,
             callback |-> "idle", seen |-> 0, signals |-> <<>>, cancel |-> "none"]

\* no FavoritesManager: the parser is used without one
NoFavorites == [favorites |-> <<>>, custom_categories |-> <<>>,
                call |-> <<"none", "">>, returned |-> "nothing"]

\* M3UParser.__init__: the state of a parser just constructed, before its
\* first parsing call
NewParser ==
    /\ should_cancel = FALSE
    /\ channels = <<>>
    /\ categories = <<>>
    /\ pc = "created"
    /\ current_channel_info = EmptyDict
    /\ channels_processed = 0
    /\ bytes_read = 0
    /\ line_buffer = <<>>
    /\ detected_encoding = "utf-8"
    /\ lines = <<>>
    /\ raised = FALSE
    /\ emissions = <<>>
    /\ slow = 0
    /\ result = <<>>
    /\ cancel_observed = FALSE
    /\ cancel_requested = FALSE
    /\ cancelled_at = -1
    /\ cancelled_pc = "none"
    /\ chunks_after_cancel = 0
    /\ api = "none"
    /\ mtime = 0
    /\ calls = 1
    /\ opens = 0
    /\ saves = 0
    /\ hit = FALSE
    /\ prev_call = <<>>
    /\ since_return = {}
    /\ manager_calls = {}
    /\ returned = "nothing"
    /\ obj = 0
    /\ handed = <<>>

\* a parser used by its caller directly, with no thread and no
\* FavoritesManager about
ConstructedParser ==
    /\ NewParser
    /\ thread = NoThread
    /\ favorites_manager = NoFavorites

\* a parser just constructed whose cache store holds nothing
Constructed == ConstructedParser /\ cache = <<>>

\* a parser constructed for a source file on disk
Init ==
    /\ file \in Files
    /\ chunk_size \in ChunkSizes
    /\ progress_callback \in BOOLEAN
    /\ save_mode = "ok"
    /\ process_events = "None"
    /\ enable_cache = TRUE
    /\ fault = "none"
    /\ Constructed

\* ------------------------------------------------------------------------
\* Cache store (pyiptv/cache_manager.py)
\* ------------------------------------------------------------------------
\* the fingerprint a source of the given content and modification time has
FingerprintOf(f, t) == [source_path |-> "S", file_size |-> Len(f), modification_time |-> t]

\* the cache file of the source is missing (<<>>) or holds one entry, which
\* may be unreadable (valid = FALSE)
Fingerprint == FingerprintOf(file, mtime)

\* CacheHit with the slip of trusting an entry that cannot be read
CacheHit_TrustsDamagedEntry == cache # <<>> /\ cache[1].fingerprint = Fingerprint

\* CacheHit with the slip of leaving the modification time out of the
\* comparison
CacheHit_IgnoresMtime ==
    /\ cache # <<>>
    /\ cache[1].valid
    /\ cache[1].fingerprint.source_path = Fingerprint.source_path
    /\ cache[1].fingerprint.file_size = Fingerprint.file_size

\* load_cache(filepath) returns the stored result when the entry can be
\* read and its fingerprint equals the source's in all fields, else None
CacheHit == cache # <<>> /\ cache[1].valid /\ cache[1].fingerprint = Fingerprint

\* SavedCache with the slip of keeping an entry the store already has
SavedCache_KeepsOldEntry(chans, cats) ==
    IF save_mode = "ok" /\ cache = <<>>
    THEN <<[fingerprint |-> Fingerprint, valid |-> TRUE,
            channels |-> chans, categories |-> cats]>>
    ELSE cache

\* SavedCache with the slip of storing the entry without the file size
SavedCache_NoFileSize(chans, cats) ==
    IF save_mode = "ok"
    THEN <<[fingerprint |-> [Fingerprint EXCEPT !.file_size = 0], valid |-> TRUE,
            channels |-> chans, categories |-> cats]>>
    ELSE cache

\* what save_cache(filepath, channels, categories) leaves in the store
SavedCache(chans, cats) ==
    IF save_mode = "ok"
    THEN <<[fingerprint |-> Fingerprint, valid |-> TRUE,
            channels |-> chans, categories |-> cats]>>
    ELSE cache

\* ------------------------------------------------------------------------
\* Failures and object identity
\* ------------------------------------------------------------------------
\* what can fail during a call: the source file is missing; load_cache
\* raises; the file cannot be opened; a read of the open file raises; the
\* progress callback raises whenever it is called
Faults == { "missing", "load", "unreadable", "read", "progress" }

\* lines 68, 116, 119: return [], {}
EmptyResult == <<[channels |-> <<>>, categories |-> <<>>]>>

\* identity of a list and dict made for one return statement only
FreshObj == -1

\* the results in callers' hands after the list and dict of identity o got
\* the contents chans and cats: a caller holding that very list sees them
Seen(h, o, chans, cats) ==
    [i \in DOMAIN h |->
        IF h[i].obj = o
        THEN [h[i] EXCEPT !.channels = chans, !.categories = cats]
        ELSE h[i]]

\* a call through entry point a returns the list and dict of identity o to
\* its caller; the record keeps what the call was made on, and in c whether
\* the builder ended under a cancel request
Handed(h, a, c, o, chans, cats) ==
    Append(h, [obj |-> o, channels |-> chans, categories |-> cats,
               returned |-> [channels |-> chans, categories |-> cats],
               source |-> file, api |-> a, cancelled |-> c])

\* ------------------------------------------------------------------------
\* Operations
\* ------------------------------------------------------------------------
\* M3UParser.cancel_parsing
CancelParsing ==
    /\ should_cancel' = TRUE
    /\ cancel_requested' = TRUE
    /\ cancelled_at' = IF should_cancel THEN cancelled_at ELSE Len(channels)
    /\ cancelled_pc' = IF should_cancel THEN cancelled_pc ELSE pc
    /\ UNCHANGED <<config, calllog, heap, process_events, channels, categories, pc, locals,
                   emissions, slow, result, cache, cancel_observed,
                   chunks_after_cancel, api>>

\* M3UParser.set_process_events_callback; the callers install the callback
\* before they start a parse
SetProcessEventsCallback ==
    /\ pc = "created"
    /\ process_events' = "callable"
    /\ UNCHANGED <<config, calllog, heap, should_cancel, channels, categories, pc, locals,
                   emissions, slow, result, cache, history, api>>

\* lines 66-68, 114-119: the call ends before the builder is entered, with
\* a list and dict made for the return
FailAtStart ==
    /\ channels' = <<>>
    /\ categories' = <<>>
    /\ result' = EmptyResult
    /\ handed' = Handed(handed, "file", FALSE, FreshObj, <<>>, <<>>)
    /\ pc' = "done"
    /\ hit' = FALSE
    /\ opens' = opens
    /\ UNCHANGED <<locals, emissions>>

\* EnterBuilder with the slip of not making a new list and dict at lines
\* 60-61, so that the entries of the previous call stay in
EnterBuilder_KeepsEntries ==
    /\ channels' = channels
    /\ categories' = categories
    /\ current_channel_info' = EmptyDict
    /\ channels_processed' = 0
    /\ bytes_read' = 0
    /\ line_buffer' = <<>>
    /\ detected_encoding' = DetectEncoding(file)
    /\ lines' = <<>>
    /\ raised' = FALSE
    /\ pc' = "loop"
    /\ opens' = opens + 1
    /\ UNCHANGED result

\* lines 60-61, 86-93, 156-188: the new list and dict, and the source
\* opened and the builder set up, to the top of the chunk loop
EnterBuilder ==
    /\ channels' = <<>>
    /\ categories' = <<>>
    /\ current_channel_info' = EmptyDict
    /\ channels_processed' = 0
    /\ bytes_read' = 0
    /\ line_buffer' = <<>>
    /\ detected_encoding' = DetectEncoding(file)
    /\ lines' = <<>>
    /\ raised' = FALSE
    /\ pc' = "loop"
    /\ opens' = opens + 1
    /\ UNCHANGED result

\* ParseFileStart with the slip of going on to read the source after a
\* cache hit was reported
ParseFileStart_NoReturnOnHit ==
    /\ pc = "created"
    /\ api' = "file"
    /\ should_cancel' = FALSE
    /\ obj' = calls
    /\ IF fault = "missing" \/ (enable_cache /\ fault = "load")
       THEN FailAtStart
       ELSE IF fault = "unreadable"
       THEN FailAtStart
       ELSE /\ EnterBuilder
            /\ hit' = (enable_cache /\ CacheHit)
            /\ handed' = handed
            /\ emissions' = IF enable_cache /\ CacheHit /\ progress_callback
                            THEN Append(emissions, <<100, Len(cache[1].channels)>>)
                            ELSE emissions
    /\ manager_calls' = IF enable_cache /\ fault # "missing"
                        THEN manager_calls \cup {"load_cache"} ELSE manager_calls
    /\ UNCHANGED <<config, calls, saves, prev_call, since_return, returned, thread, favorites_manager,
                   process_events, slow, cache, history>>

\* ParseFileStart with the slip of emptying the list and dict of the
\* previous call instead of making new ones
ParseFileStart_ClearInPlace ==
    /\ pc = "created"
    /\ api' = "file"
    /\ should_cancel' = FALSE
    /\ obj' = obj
    /\ IF fault = "missing" \/ (enable_cache /\ fault = "load")
       THEN FailAtStart
       ELSE IF enable_cache /\ CacheHit
       THEN /\ channels' = cache[1].channels
            /\ categories' = cache[1].categories
            /\ emissions' = IF progress_callback
                            THEN Append(emissions, <<100, Len(cache[1].channels)>>)
                            ELSE emissions
            /\ result' = <<[channels |-> cache[1].channels,
                            categories |-> cache[1].categories]>>
            /\ handed' = Handed(Seen(handed, obj, cache[1].channels, cache[1].categories),
                                "file", FALSE, obj, cache[1].channels, cache[1].categories)
            /\ pc' = "done"
            /\ hit' = TRUE
            /\ opens' = opens
            /\ UNCHANGED locals
       ELSE IF fault = "unreadable"
       THEN FailAtStart
       ELSE /\ EnterBuilder
            /\ hit' = FALSE
            /\ handed' = Seen(handed, obj, <<>>, <<>>)
            /\ UNCHANGED emissions
    /\ manager_calls' = IF enable_cache /\ fault # "missing"
                        THEN manager_calls \cup {"load_cache"} ELSE manager_calls
    /\ UNCHANGED <<config, calls, saves, prev_call, since_return, returned, thread, favorites_manager,
                   process_events, slow, cache, history>>

\* parse_m3u_from_file, lines 60-93 and 156-188: reset, the check that the
\* file exists, the cache lookup, and on a miss the set-up of the builder up
\* to the top of the chunk loop.  An exception of load_cache, of open or of
\* the progress callback reaches the handler of lines 117-119.
ParseFileStart ==
    /\ pc = "created"
    /\ api' = "file"
    /\ should_cancel' = FALSE
    /\ obj' = calls
    /\ IF fault = "missing" \/ (enable_cache /\ fault = "load")
       THEN FailAtStart
       ELSE IF enable_cache /\ CacheHit
       THEN /\ channels' = cache[1].channels
            /\ categories' = cache[1].categories
            /\ emissions' = IF progress_callback
                            THEN Append(emissions, <<100, Len(cache[1].channels)>>)
                            ELSE emissions
            /\ IF progress_callback /\ fault = "progress"
               THEN /\ result' = EmptyResult
                    /\ handed' = Handed(handed, "file", FALSE, FreshObj, <<>>, <<>>)
               ELSE /\ result' = <<[channels |-> cache[1].channels,
                                    categories |-> cache[1].categories]>>
                    /\ handed' = Handed(handed, "file", FALSE, calls, cache[1].channels,
                                        cache[1].categories)
            /\ pc' = "done"
            /\ hit' = TRUE
            /\ opens' = opens
            /\ UNCHANGED locals
       ELSE IF fault = "unreadable"
       THEN FailAtStart
       ELSE EnterBuilder /\ hit' = FALSE /\ UNCHANGED <<emissions, handed>>
    /\ manager_calls' = IF enable_cache /\ fault # "missing"
                        THEN manager_calls \cup {"load_cache"} ELSE manager_calls
    /\ UNCHANGED <<config, calls, saves, prev_call, since_return, returned, thread, favorites_manager,
                   process_events, slow, cache, history>>

\* lines 190-228: the top of one chunk iteration.  A read that raises is
\* caught at line 295 and ends the loop.
ReadChunk ==
    /\ pc = "loop"
    /\ \E fails \in BOOLEAN :
        /\ fails => fault = "read" /\ ~should_cancel
        /\ LET chunk == ReadBytes(file, bytes_read, chunk_size)
               split == SplitChunk(line_buffer, Decode(chunk, detected_encoding))
           IN  IF should_cancel
               THEN /\ pc' = "after_loop"
                    /\ cancel_observed' = TRUE
                    /\ UNCHANGED <<bytes_read, line_buffer, lines, raised,
                                   chunks_after_cancel>>
               ELSE IF fails
               THEN /\ pc' = "after_loop"
                    /\ raised' = TRUE
                    /\ UNCHANGED <<bytes_read, line_buffer, lines, cancel_observed,
                                   chunks_after_cancel>>
               ELSE IF chunk = <<>>
               THEN /\ pc' = "after_loop"
                    /\ UNCHANGED <<bytes_read, line_buffer, lines, raised,
                                   cancel_observed, chunks_after_cancel>>
               ELSE /\ bytes_read' = bytes_read + Len(chunk)
                    /\ line_buffer' = split.line_buffer
                    /\ lines' = split.lines
                    /\ pc' = "lines"
                    /\ chunks_after_cancel' = IF cancel_requested
                                              THEN chunks_after_cancel + 1
                                              ELSE chunks_after_cancel
                    /\ UNCHANGED <<raised, cancel_observed>>
    /\ UNCHANGED <<config, calllog, heap, process_events, should_cancel, channels,
                   categories, current_channel_info, channels_processed,
                   detected_encoding, emissions, slow, result, cache,
                   cancel_requested, cancelled_at, cancelled_pc, api>>

\* lines 231-263: one line of the current chunk
ProcessLineStep ==
    /\ pc = "lines"
    /\ lines # <<>>
    /\ LET b == ProcessLine(Build, Head(lines))
       IN  /\ channels' = b.channels
           /\ categories' = b.categories
           /\ current_channel_info' = b.current_channel_info
           /\ channels_processed' = b.channels_processed
           /\ handed' = Seen(handed, obj, b.channels, b.categories)
    /\ lines' = Tail(lines)
    /\ UNCHANGED <<config, calllog, obj, process_events, should_cancel, pc, bytes_read,
                   line_buffer, detected_encoding, raised, emissions, slow,
                   result, cache, history, api>>

\* lines 265-278: the progress update that ends a chunk iteration.  late
\* says whether more than 500 ms passed since the last update; the clock is
\* read only when a callback is set and the count trigger is off.
\* self._process_events is None unless the callback was installed
\* (hasattr is true either way), and calling None raises TypeError, which
\* line 295 catches.
UpdateProgress ==
    /\ pc = "lines"
    /\ lines = <<>>
    /\ \E late \in BOOLEAN :
        /\ late => /\ slow < MaxSlow
                   /\ progress_callback
                   /\ channels_processed % progress_update_interval # 0
        /\ slow' = IF late THEN slow + 1 ELSE slow
        /\ IF progress_callback
              /\ (channels_processed % progress_update_interval = 0 \/ late)
           THEN /\ emissions' = Append(emissions,
                                   <<Percent(bytes_read, Len(file)), channels_processed>>)
                /\ IF process_events = "None" \/ fault = "progress"
                   THEN raised' = TRUE /\ pc' = "after_loop"
                   ELSE raised' = raised /\ pc' = "loop"
           ELSE /\ pc' = "loop"
                /\ UNCHANGED <<emissions, raised>>
    /\ UNCHANGED <<config, calllog, heap, process_events, should_cancel, channels,
                   categories, current_channel_info, channels_processed, bytes_read,
                   line_buffer, detected_encoding, lines, result, cache,
                   history, api>>

\* FinalCallback with the slip of having no handler around the builder, so
\* that the exception of the callback leaves the call
FinalCallback_NoOuterHandler(b) ==
    IF progress_callback /\ fault = "progress"
    THEN /\ pc' = "escaped"
         /\ result' = <<>>
         /\ handed' = Seen(handed, obj, b.channels, b.categories)
    ELSE /\ pc' = "save"
         /\ result' = result
         /\ handed' = Seen(handed, obj, b.channels, b.categories)

\* lines 298-302: the final progress update is made outside the handler of
\* line 295, so a callback that raises there ends the call in the handler
\* of lines 117-119, which returns a new empty list and dict
FinalCallback(b) ==
    IF progress_callback /\ fault = "progress"
    THEN /\ pc' = "done"
         /\ result' = EmptyResult
         /\ handed' = Handed(Seen(handed, obj, b.channels, b.categories),
                             "file", should_cancel, FreshObj, <<>>, <<>>)
    ELSE /\ pc' = "save"
         /\ result' = result
         /\ handed' = Seen(handed, obj, b.channels, b.categories)

\* FinishBuild with the slip of flushing the line buffer after a cancel
FinishBuild_FlushOnCancel ==
    /\ pc = "after_loop"
    /\ LET b == IF ~raised THEN FlushBuffer(Build, line_buffer) ELSE Build
       IN  /\ channels' = b.channels
           /\ categories' = b.categories
           /\ current_channel_info' = b.current_channel_info
           /\ channels_processed' = b.channels_processed
           /\ emissions' = IF progress_callback
                           THEN Append(emissions, <<100, b.channels_processed>>)
                           ELSE emissions
           /\ FinalCallback(b)
    /\ UNCHANGED <<config, calllog, obj, process_events, should_cancel, bytes_read,
                   line_buffer, detected_encoding, lines, raised, slow,
                   cache, history, api>>

\* FinishBuild with the slip of making the final progress update only when
\* the loop ended without an exception
FinishBuild_NoFinalAfterError ==
    /\ pc = "after_loop"
    /\ LET b == IF ~raised /\ ~should_cancel
                THEN FlushBuffer(Build, line_buffer) ELSE Build
       IN  /\ channels' = b.channels
           /\ categories' = b.categories
           /\ current_channel_info' = b.current_channel_info
           /\ channels_processed' = b.channels_processed
           /\ emissions' = IF progress_callback /\ ~raised
                           THEN Append(emissions, <<100, b.channels_processed>>)
                           ELSE emissions
           /\ FinalCallback(b)
    /\ UNCHANGED <<config, calllog, obj, process_events, should_cancel, bytes_read,
                   line_buffer, detected_encoding, lines, raised, slow,
                   cache, history, api>>

\* lines 280-302: flush of the line buffer (skipped after an exception or a
\* cancel), the final progress update, and the return of the builder
FinishBuild ==
    /\ pc = "after_loop"
    /\ LET b == IF ~raised /\ ~should_cancel
                THEN FlushBuffer(Build, line_buffer) ELSE Build
       IN  /\ channels' = b.channels
           /\ categories' = b.categories
           /\ current_channel_info' = b.current_channel_info
           /\ channels_processed' = b.channels_processed
           /\ emissions' = IF progress_callback
                           THEN Append(emissions, <<100, b.channels_processed>>)
                           ELSE emissions
           /\ FinalCallback(b)
    /\ UNCHANGED <<config, calllog, obj, process_events, should_cancel, bytes_read,
                   line_buffer, detected_encoding, lines, raised, slow,
                   cache, history, api>>

\* SaveAndReturn with the slip of returning nothing after a cancel
SaveAndReturn_EmptyOnCancel ==
    /\ pc = "save"
    /\ IF enable_cache /\ ~should_cancel /\ channels # <<>>
       THEN /\ cache' = SavedCache(channels, categories)
            /\ saves' = saves + 1
            /\ manager_calls' = manager_calls \cup {"save_cache"}
       ELSE UNCHANGED <<cache, saves, manager_calls>>
    /\ result' = IF should_cancel
                 THEN <<[channels |-> <<>>, categories |-> <<>>]>>
                 ELSE <<[channels |-> channels, categories |-> categories]>>
    /\ handed' = IF result' = EmptyResult /\ channels # <<>>
                 THEN Handed(handed, "file", should_cancel, FreshObj, <<>>, <<>>)
                 ELSE Handed(handed, "file", should_cancel, obj, channels, categories)
    /\ pc' = "done"
    /\ UNCHANGED <<config, calls, opens, hit, prev_call, since_return, returned, thread, favorites_manager, obj,
                   process_events, should_cancel, channels, categories,
                   locals, emissions, slow, history, api>>

\* SaveAndReturn with the slip of saving whatever the parse ended with
SaveAndReturn_SaveAlways ==
    /\ pc = "save"
    /\ IF enable_cache
       THEN /\ cache' = SavedCache(channels, categories)
            /\ saves' = saves + 1
            /\ manager_calls' = manager_calls \cup {"save_cache"}
       ELSE UNCHANGED <<cache, saves, manager_calls>>
    /\ result' = <<[channels |-> channels, categories |-> categories]>>
    /\ handed' = IF result' = EmptyResult /\ channels # <<>>
                 THEN Handed(handed, "file", should_cancel, FreshObj, <<>>, <<>>)
                 ELSE Handed(handed, "file", should_cancel, obj, channels, categories)
    /\ pc' = "done"
    /\ UNCHANGED <<config, calls, opens, hit, prev_call, since_return, returned, thread, favorites_manager, obj,
                   process_events, should_cancel, channels, categories,
                   locals, emissions, slow, history, api>>

\* SaveAndReturn with the slip of letting an exception of save_cache reach
\* the handler of lines 114-119, which returns no entries
SaveAndReturn_SaveRaisePropagates ==
    /\ pc = "save"
    /\ IF enable_cache /\ ~should_cancel /\ channels # <<>>
       THEN /\ cache' = SavedCache(channels, categories)
            /\ saves' = saves + 1
            /\ manager_calls' = manager_calls \cup {"save_cache"}
       ELSE UNCHANGED <<cache, saves, manager_calls>>
    /\ result' = IF enable_cache /\ ~should_cancel /\ channels # <<>>
                    /\ save_mode = "raises"
                 THEN <<[channels |-> <<>>, categories |-> <<>>]>>
                 ELSE <<[channels |-> channels, categories |-> categories]>>
    /\ handed' = IF result' = EmptyResult /\ channels # <<>>
                 THEN Handed(handed, "file", should_cancel, FreshObj, <<>>, <<>>)
                 ELSE Handed(handed, "file", should_cancel, obj, channels, categories)
    /\ pc' = "done"
    /\ UNCHANGED <<config, calls, opens, hit, prev_call, since_return, returned, thread, favorites_manager, obj,
                   process_events, should_cancel, channels, categories,
                   locals, emissions, slow, history, api>>

\* parse_m3u_from_file, lines 95-112: save to the cache and return
SaveAndReturn ==
    /\ pc = "save"
    /\ IF enable_cache /\ ~should_cancel /\ channels # <<>>
       THEN /\ cache' = SavedCache(channels, categories)
            /\ saves' = saves + 1
            /\ manager_calls' = manager_calls \cup {"save_cache"}
       ELSE UNCHANGED <<cache, saves, manager_calls>>
    /\ result' = <<[channels |-> channels, categories |-> categories]>>
    /\ handed' = Handed(handed, "file", should_cancel, obj, channels, categories)
    /\ pc' = "done"
    /\ UNCHANGED <<config, calls, opens, hit, prev_call, since_return, returned, thread, favorites_manager, obj,
                   process_events, should_cancel, channels, categories,
                   locals, emissions, slow, history, api>>

\* the list of lines a caller hands to parse_m3u_from_content for the
\* source: its text split at "\n", no line at all for an empty text
ContentLines == IF file = <<>> THEN <<>> ELSE SplitNL(DecodeUtf8Ignore(file))

\* parse_m3u_from_content with _parse_content, lines 140-149 and 309-356
ParseContent ==
    /\ pc = "created"
    /\ api' = "content"
    /\ LET b == ProcessLines(EmptyBuild, ContentLines)
       IN  /\ channels' = b.channels
           /\ categories' = b.categories
           /\ result' = <<[channels |-> b.channels, categories |-> b.categories]>>
           /\ handed' = Handed(handed, "content", FALSE, calls, b.channels, b.categories)
    /\ obj' = calls
    /\ pc' = "done"
    /\ UNCHANGED <<config, calllog, process_events, should_cancel, locals, emissions,
                   slow, cache, history>>

\* the steps of a parsing call
ParseStep ==
    \/ ParseFileStart
    \/ ReadChunk
    \/ ProcessLineStep
    \/ UpdateProgress
    \/ FinishBuild
    \/ SaveAndReturn
    \/ ParseContent

\* cancel_parsing called once the parsing call has begun.  A call made
\* before that changes nothing but the flag, which line 62 clears again;
\* SpecRace has that interleaving.
CancelDuringParse == pc # "created" /\ CancelParsing

Next ==
    \/ CancelDuringParse
    \/ SetProcessEventsCallback
    \/ ParseStep

Spec == Init /\ [][Next]_vars

\* cancel_parsing called at any time, also between the construction of the
\* parser and the parsing call
NextRace ==
    \/ CancelParsing
    \/ SetProcessEventsCallback
    \/ ParseStep

SpecRace == Init /\ [][NextRace]_vars

\* a parser constructed for the long playlist, read a header-sized chunk at
\* a time by parse_m3u_from_file, or handed over as lines to
\* parse_m3u_from_content; the call is not cancelled
InitLong ==
    /\ file = LongFile
    /\ chunk_size = LongChunk
    /\ progress_callback \in BOOLEAN
    /\ save_mode = "ok"
    /\ process_events = "None"
    /\ enable_cache = TRUE
    /\ fault = "none"
    /\ Constructed

\* the steps of parse_m3u_from_file, the call the long playlist is read by
ParseFileStep ==
    \/ ParseFileStart
    \/ ReadChunk
    \/ ProcessLineStep
    \/ UpdateProgress
    \/ FinishBuild
    \/ SaveAndReturn

NextLong ==
    \/ SetProcessEventsCallback
    \/ ParseFileStep
    \/ ParseContent

SpecLong == InitLong /\ [][NextLong]_vars

\* the caller, once a parsing call has returned, sets out to call the same
\* parser again (lines 60-62 and 156-165 start every call afresh)
AnotherCall ==
    /\ pc = "done"
    /\ calls < MaxCalls
    /\ calls' = calls + 1
    /\ prev_call' = <<[result    |-> result,
                       cancelled |-> should_cancel,
                       hit       |-> hit,
                       saved     |-> saves > 0 /\ save_mode = "ok"]>>
    /\ pc' = "created"
    /\ result' = <<>>
    /\ emissions' = <<>>
    /\ opens' = 0
    /\ saves' = 0
    /\ hit' = FALSE
    /\ since_return' = {}
    /\ manager_calls' = {}
    /\ returned' = "nothing"
    /\ thread' = thread
    /\ favorites_manager' = favorites_manager
    /\ slow' = 0
    /\ api' = "none"
    /\ cancel_observed' = FALSE
    /\ cancel_requested' = FALSE
    /\ cancelled_at' = -1
    /\ cancelled_pc' = "none"
    /\ chunks_after_cancel' = 0
    /\ current_channel_info' = EmptyDict
    /\ channels_processed' = 0
    /\ bytes_read' = 0
    /\ line_buffer' = <<>>
    /\ detected_encoding' = "utf-8"
    /\ lines' = <<>>
    /\ raised' = FALSE
    /\ UNCHANGED <<config, obj, process_events, channels, categories, cache>>

\* the next call, parse_m3u_from_file, of a caller that dropped the earlier
\* results; line 62 clears the cancel flag before anything reads it
NextCall ==
    /\ AnotherCall
    /\ should_cancel' = FALSE
    /\ handed' = <<>>

\* the next call, through either entry point, of a caller that keeps every
\* result it was handed; the cancel flag stays as the last call left it
CallAgain ==
    /\ AnotherCall
    /\ should_cancel' = should_cancel
    /\ handed' = handed

\* the source file is rewritten between two calls: other content, a new
\* modification time, or both (a copy that keeps the time stamp)
MutateSource ==
    /\ pc = "created"
    /\ calls > 1
    /\ "mutate" \notin since_return
    /\ file' \in CacheFiles
    /\ mtime' \in {mtime, mtime + 1}
    /\ <<file', mtime'>> # <<file, mtime>>
    /\ since_return' = since_return \cup {"mutate"} \cup
                       (IF FingerprintOf(file', mtime') # FingerprintOf(file, mtime)
                        THEN {"fingerprint"} ELSE {})
    /\ UNCHANGED <<chunk_size, progress_callback, save_mode, enable_cache, fault,
                   heap, calls, opens, saves, manager_calls, returned, thread, favorites_manager,
                   hit, prev_call, process_events, should_cancel, channels,
                   categories, pc, locals, emissions, slow, result, cache,
                   history, api>>

\* InvalidateCache with the slip of leaving the entry in the store
InvalidateCache_KeepsEntry ==
    /\ pc = "created"
    /\ calls > 1
    /\ "invalidate" \notin since_return
    /\ cache' = cache
    /\ manager_calls' = IF enable_cache
                        THEN manager_calls \cup {"invalidate_cache"} ELSE manager_calls
    /\ returned' = IF enable_cache THEN "of the manager" ELSE "False"
    /\ since_return' = since_return \cup {"invalidate"}
    /\ UNCHANGED <<config, heap, calls, opens, saves, hit, prev_call, process_events,
                   should_cancel, channels, categories, pc, locals, emissions,
                   slow, result, history, api, thread, favorites_manager>>

\* InvalidateCache with the slip of asking the cache manager whether or
\* not caching is enabled
InvalidateCache_IgnoresSwitch ==
    /\ pc = "created"
    /\ calls > 1
    /\ "invalidate" \notin since_return
    /\ cache' = <<>>
    /\ manager_calls' = manager_calls \cup {"invalidate_cache"}
    /\ returned' = "of the manager"
    /\ since_return' = since_return \cup {"invalidate"}
    /\ UNCHANGED <<config, heap, calls, opens, saves, hit, prev_call, process_events,
                   should_cancel, channels, categories, pc, locals, emissions,
                   slow, result, history, api, thread, favorites_manager>>

\* M3UParser.invalidate_cache, lines 481-493: with caching enabled the
\* cache store deletes the entries of the source and the parser returns
\* what the manager returned; without, it returns False
InvalidateCache ==
    /\ pc = "created"
    /\ calls > 1
    /\ "invalidate" \notin since_return
    /\ cache' = IF enable_cache THEN <<>> ELSE cache
    /\ manager_calls' = IF enable_cache
                        THEN manager_calls \cup {"invalidate_cache"} ELSE manager_calls
    /\ returned' = IF enable_cache THEN "of the manager" ELSE "False"
    /\ since_return' = since_return \cup {"invalidate"}
    /\ UNCHANGED <<config, heap, calls, opens, saves, hit, prev_call, process_events,
                   should_cancel, channels, categories, pc, locals, emissions,
                   slow, result, history, api, thread, favorites_manager>>

\* the cache file of the source is damaged or made unreadable between two calls
CorruptCache ==
    /\ pc = "created"
    /\ calls > 1
    /\ cache # <<>>
    /\ cache[1].valid
    /\ cache' = <<[cache[1] EXCEPT !.valid = FALSE]>>
    /\ since_return' = since_return \cup {"corrupt"}
    /\ UNCHANGED <<config, heap, calls, opens, saves, hit, prev_call, process_events,
                   manager_calls, returned, thread, favorites_manager,
                   should_cancel, channels, categories, pc, locals, emissions,
                   slow, result, history, api>>

\* a parser with caching enabled and the process-events callback installed,
\* for a source that has no cache entry yet
InitCache ==
    /\ file \in CacheFiles
    /\ chunk_size = DefaultChunkSize
    /\ progress_callback \in BOOLEAN
    /\ save_mode \in SaveModes
    /\ process_events = "callable"
    /\ enable_cache = TRUE
    /\ fault = "none"
    /\ Constructed

NextCache ==
    \/ ParseFileStep
    \/ CancelDuringParse
    \/ NextCall
    \/ MutateSource
    \/ InvalidateCache
    \/ CorruptCache

SpecCache == InitCache /\ [][NextCache]_vars

\* the sources of the calls that meet failures: those of the cache, and one
\* with a malformed record before a good entry
FaultFiles == CacheFiles \cup { JoinNL(<<HdrBad, UrlV, HdrU, UrlV>>) }

\* between two calls the source or the environment changes what fails: the
\* file is deleted or restored, loses or regains its read permission (its
\* size and modification time stay as they are), its disk or the caller's
\* callback starts or stops raising
FaultChanges ==
    /\ pc = "created"
    /\ calls > 1
    /\ "fault" \notin since_return
    /\ fault' \in (Faults \cup {"none"}) \ {fault}
    /\ since_return' = since_return \cup {"fault"}
    /\ UNCHANGED <<file, chunk_size, progress_callback, mtime, save_mode,
                   enable_cache, heap, calls, opens, saves, hit, prev_call,
                   manager_calls, returned, thread, favorites_manager,
                   process_events, should_cancel, channels, categories, pc,
                   locals, emissions, slow, result, cache, history, api>>

\* a parser with or without cache and callbacks, for a source that has no
\* cache entry yet, in an environment where something may fail
InitFault ==
    /\ file \in FaultFiles
    /\ chunk_size \in ChunkSizes
    /\ progress_callback \in BOOLEAN
    /\ save_mode \in SaveModes
    /\ process_events \in { "None", "callable" }
    /\ enable_cache \in BOOLEAN
    /\ fault \in Faults \cup {"none"}
    /\ Constructed

NextFault ==
    \/ ParseFileStep
    \/ NextCall
    \/ FaultChanges

SpecFault == InitFault /\ [][NextFault]_vars

\* the UTF-16 bytes of a text of the basic plane
Utf16Encode(text, big) ==
    [i \in 1..(2 * Len(text)) |->
        LET u == text[(i + 1) \div 2]
        IN  IF (i % 2 = 1) = big THEN u \div 256 ELSE u % 256]

\* the chunk size under which the second chunk of a file that begins with
\* the line HdrU starts right after that line
BomChunk == Len(HdrU) + 1

\* what follows the byte-order-mark, if any, in the files of the detector:
\* an entry in ASCII, in UTF-16 of either byte order, in Latin-1 with a
\* byte that is no UTF-8, with a byte cp1252 has no character for, with a
\* UTF-8 byte-order-mark after the header line; and text without marker,
\* in UTF-8, in no UTF-8, and empty
EncodingBodies ==
    { JoinNL(<<HdrU, UrlV>>),
      Utf16Encode(JoinNL(<<HdrU, UrlV>>), FALSE),
      Utf16Encode(JoinNL(<<HdrU, UrlV>>), TRUE),
      JoinNL(<<HdrU \o <<233>>, UrlV>>),
      JoinNL(<<HdrU \o <<129>>, UrlV>>),
      JoinNL(<<HdrU, BOM_UTF8 \o UrlV>>),
      UrlH,
      <<118, 233>>,
      <<>> }

EncodingFiles ==
    { prefix \o body : prefix \in {<<>>, BOM_UTF8, BOM_UTF16LE, BOM_UTF16BE},
                       body \in EncodingBodies }

\* a parser for a file in one of the encodings, read in small chunks, in
\* header-sized chunks or at once
InitEncoding ==
    /\ file \in EncodingFiles
    /\ chunk_size \in { SmallChunk, BomChunk, DefaultChunkSize }
    /\ progress_callback \in BOOLEAN
    /\ save_mode = "ok"
    /\ process_events = "callable"
    /\ enable_cache = FALSE
    /\ fault = "none"
    /\ Constructed

SpecEncoding == InitEncoding /\ [][ParseFileStep]_vars

\* a parser without cache for a source of one entry, parsed through either
\* entry point
InitExtinf ==
    /\ file \in ExtinfFiles
    /\ chunk_size = DefaultChunkSize
    /\ progress_callback = FALSE
    /\ save_mode = "ok"
    /\ process_events = "callable"
    /\ enable_cache = FALSE
    /\ fault = "none"
    /\ Constructed

SpecExtinf == InitExtinf /\ [][ParseStep]_vars

\* ------------------------------------------------------------------------
\* Sources of one entry with lines between its header and its url
\* ------------------------------------------------------------------------
MaxBetween == 2    \* lines between the header and the url

\* the lines the loop passes over: directives, a comment, "#EXTINF" without
\* its colon, a blank line and a line of whitespace
BetweenLines ==
    { S_EXTVLCOPT \o <<120>>,       \* #EXTVLCOPT:x
      S_EXTGRP \o <<71>>,           \* #EXTGRP:G
      S_HASH \o <<32, 99>>,         \* "# c"
      S_EXTINF_TAG,                 \* #EXTINF
      <<>>,
      <<32, 13>> }                  \* " \r"

UrlU == <<117>>                     \* u

BetweenFiles ==
    UNION { { JoinNL(<<h>> \o mid \o <<u>>) :
                h \in {HdrU, HdrN}, mid \in [1..n -> BetweenLines], u \in {UrlV, UrlU} } :
            n \in 0..MaxBetween }

\* a parser without cache for such a source, parsed through either entry
\* point, the file in small chunks or at once
InitBetween ==
    /\ file \in BetweenFiles
    /\ chunk_size \in ChunkSizes
    /\ progress_callback = FALSE
    /\ save_mode = "ok"
    /\ process_events = "callable"
    /\ enable_cache = FALSE
    /\ fault = "none"
    /\ Constructed

SpecBetween == InitBetween /\ [][ParseStep]_vars

\* ------------------------------------------------------------------------
\* A parser handed a cache manager, with caching switched on or off
\* ------------------------------------------------------------------------
\* the frame of the cache methods of the parser that take no part in parsing
CacheMethodFrame ==
    UNCHANGED <<config, heap, calls, opens, saves, hit, prev_call, process_events,
                should_cancel, channels, categories, pc, locals, emissions,
                slow, result, history, api, thread, favorites_manager>>

\* M3UParser.get_cache_info, lines 495-507: what the manager returns with
\* caching enabled, None without
GetCacheInfo ==
    /\ pc = "created"
    /\ calls > 1
    /\ "info" \notin since_return
    /\ manager_calls' = IF enable_cache
                        THEN manager_calls \cup {"get_cache_info"} ELSE manager_calls
    /\ returned' = IF enable_cache THEN "of the manager" ELSE "None"
    /\ cache' = cache
    /\ since_return' = since_return \cup {"info"}
    /\ CacheMethodFrame

\* M3UParser.cleanup_old_cache, lines 509-521: with caching enabled the
\* manager deletes the entries it finds too old, the one of the source
\* among them or not, and the parser returns the manager's count; without,
\* it returns 0
CleanupOldCache ==
    /\ pc = "created"
    /\ calls > 1
    /\ "cleanup" \notin since_return
    /\ manager_calls' = IF enable_cache
                        THEN manager_calls \cup {"cleanup_old_cache"} ELSE manager_calls
    /\ returned' = IF enable_cache THEN "of the manager" ELSE "0"
    /\ cache' \in IF enable_cache THEN {cache, <<>>} ELSE {cache}
    /\ since_return' = since_return \cup {"cleanup"}
    /\ CacheMethodFrame

\* M3UParser.get_cache_stats, lines 523-532: what the manager returns with
\* caching enabled, an empty dict without
GetCacheStats ==
    /\ pc = "created"
    /\ calls > 1
    /\ "stats" \notin since_return
    /\ manager_calls' = IF enable_cache
                        THEN manager_calls \cup {"get_cache_stats"} ELSE manager_calls
    /\ returned' = IF enable_cache THEN "of the manager" ELSE "{}"
    /\ cache' = cache
    /\ since_return' = since_return \cup {"stats"}
    /\ CacheMethodFrame

\* the entry an earlier user of the cache manager left for the source
EarlierEntry ==
    <<[fingerprint |-> Fingerprint, valid |-> TRUE,
       channels |-> OnePass(file).channels,
       categories |-> OnePass(file).categories]>>

\* a parser constructed with a cache manager that holds nothing or an entry
\* for the source, with enable_cache true or false
InitManager ==
    /\ file \in CacheFiles
    /\ chunk_size = DefaultChunkSize
    /\ progress_callback \in BOOLEAN
    /\ save_mode = "ok"
    /\ process_events = "callable"
    /\ enable_cache \in BOOLEAN
    /\ fault = "none"
    /\ ConstructedParser
    /\ cache \in { <<>>, EarlierEntry }

NextManager ==
    \/ ParseFileStep
    \/ NextCall
    \/ InvalidateCache
    \/ GetCacheInfo
    \/ CleanupOldCache
    \/ GetCacheStats

SpecManager == InitManager /\ [][NextManager]_vars

\* ------------------------------------------------------------------------
\* M3UParseThread (iptv_player/ui/main_window.py)
\* ------------------------------------------------------------------------
\* thread.run is the position of run(): "started", "created" (the parser
\* is made), "parsing", "emit" (the cancel flag was tested after the parse),
\* "returned".  thread.callback is the position of progress_callback:
\* "idle" or "emit" (the cancel flag was tested).  thread.seen counts the
\* progress updates of the parser the callback has dealt with.
\* thread.cancel is the position of MainWindow.cancel_parsing: "none",
\* "flagged" (the flag of the thread is set), "done".
ThreadFrame ==
    UNCHANGED <<file, chunk_size, progress_callback, process_events, should_cancel,
                channels, categories, pc, current_channel_info, channels_processed,
                bytes_read, line_buffer, detected_encoding, lines, raised, emissions,
                slow, result, cache, cancel_observed, cancel_requested, cancelled_at,
                cancelled_pc, chunks_after_cancel, api, mtime, save_mode, calls,
                opens, saves, hit, prev_call, since_return, enable_cache, fault,
                obj, handed, manager_calls, returned, favorites_manager>>

\* lines 124-134: run() makes the parser with its progress callback
RunCreateParser ==
    /\ thread.run = "started"
    /\ thread' = [thread EXCEPT !.run = "created", !.parser = TRUE]
    /\ ThreadFrame

\* lines 136-142: run() installs the process-events callback
RunSetProcessEvents ==
    /\ thread.run = "created"
    /\ process_events = "None"
    /\ SetProcessEventsCallback

\* lines 146-154: the file is missing (error signal); or it is gone when
\* its size is asked (the handler of lines 167-169, which emits error
\* unless the thread was cancelled); or the parse begins
RunBeforeParse ==
    /\ thread.run = "created"
    /\ process_events = "callable"
    /\ \E gone \in BOOLEAN :
          thread' =
            IF fault = "missing"
            THEN [thread EXCEPT !.run = "returned",
                                !.signals = Append(@, <<"error">>)]
            ELSE IF gone
            THEN [thread EXCEPT !.run = "returned",
                                !.signals = IF thread.should_cancel THEN @
                                            ELSE Append(@, <<"error">>)]
            ELSE [thread EXCEPT !.run = "parsing"]
    /\ ThreadFrame

\* line 156: a step of parse_m3u_from_file; the parser goes on when the
\* progress callback has returned
RunParse ==
    /\ thread.run = "parsing"
    /\ thread.callback = "idle"
    /\ thread.seen = Len(emissions)
    /\ ParseFileStep

\* line 130: progress_callback tests the cancel flag of the thread
CallbackTest ==
    /\ thread.run = "parsing"
    /\ thread.callback = "idle"
    /\ thread.seen < Len(emissions)
    /\ thread' = IF thread.should_cancel
                 THEN [thread EXCEPT !.seen = @ + 1]
                 ELSE [thread EXCEPT !.callback = "emit"]
    /\ ThreadFrame

\* line 131: progress_callback emits the progress signal
CallbackEmit ==
    /\ thread.callback = "emit"
    /\ thread' = [thread EXCEPT
                    !.callback = "idle",
                    !.seen = @ + 1,
                    !.signals = Append(@, <<"progress">> \o emissions[thread.seen + 1])]
    /\ ThreadFrame

\* lines 158-160: after the parse run() tests the cancel flag
RunAfterParse ==
    /\ thread.run = "parsing"
    /\ pc = "done"
    /\ thread.callback = "idle"
    /\ thread.seen = Len(emissions)
    /\ thread' = [thread EXCEPT !.run = IF thread.should_cancel
                                        THEN "returned" ELSE "emit"]
    /\ ThreadFrame

\* lines 162-166: run() emits the finished signal
RunEmitFinished ==
    /\ thread.run = "emit"
    /\ thread' = [thread EXCEPT !.run = "returned",
                                !.signals = Append(@, <<"finished", Len(result[1].channels)>>)]
    /\ ThreadFrame

\* MainWindow.cancel_parsing, lines 548-551, and line 120: the thread is
\* running, and its flag is set
CancelSetFlag ==
    /\ thread.cancel = "none"
    /\ thread.run \notin {"none", "returned"}
    /\ thread' = [thread EXCEPT !.cancel = "flagged", !.should_cancel = TRUE]
    /\ ThreadFrame

\* lines 121-122: the parser, if there is one, is told to cancel
CancelParser ==
    /\ thread.cancel = "flagged"
    /\ thread.parser
    /\ ~cancel_requested
    /\ CancelParsing

\* cancel_parsing returns
CancelReturn ==
    /\ thread.cancel = "flagged"
    /\ ~thread.parser \/ cancel_requested
    /\ thread' = [thread EXCEPT !.cancel = "done"]
    /\ ThreadFrame

\* a thread started for a source that is there or missing, whose parser
\* will find the cache empty or holding the entry of the source
InitThread ==
    /\ file \in CacheFiles
    /\ chunk_size = DefaultChunkSize
    /\ progress_callback = TRUE
    /\ save_mode = "ok"
    /\ process_events = "None"
    /\ enable_cache = TRUE
    /\ fault \in {"none", "missing"}
    /\ NewParser
    /\ cache \in { <<>>, EarlierEntry }
    /\ thread = [NoThread EXCEPT !.run = "started"]
    /\ favorites_manager = NoFavorites

NextThread ==
    \/ RunCreateParser
    \/ RunSetProcessEvents
    \/ RunBeforeParse
    \/ RunParse
    \/ CallbackTest
    \/ CallbackEmit
    \/ RunAfterParse
    \/ RunEmitFinished
    \/ CancelSetFlag
    \/ CancelParser
    \/ CancelReturn

SpecThread == InitThread /\ [][NextThread]_vars

\* ------------------------------------------------------------------------
\* FavoritesManager (pyiptv/favorites_manager.py)
\* ------------------------------------------------------------------------
\* favorites_manager.favorites maps the url of each favorite to its
\* custom_category; favorites_manager.custom_categories maps the name of
\* each custom category to its channel_count; favorites_manager.call is
\* the last call made and favorites_manager.returned what it returned.
MaxCount == 2

Urls == {"u1", "u2"}
NoneCategory == "None"
DefaultCategories == {"Recently Added", "Top Rated", "Most Watched"}
CategoryNames == {"Top Rated", "Mine"}

Put(d, k, v) == [x \in DOMAIN d \cup {k} |-> IF x = k THEN v ELSE d[x]]
Remove(d, k) == [x \in DOMAIN d \ {k} |-> d[x]]
Adjust(cats, name, by) ==
    IF name # NoneCategory /\ name \in DOMAIN cats
    THEN [cats EXCEPT ![name] = @ + by]
    ELSE cats

\* the counts stay within the range the model keeps
Counted(cats) == \A n \in DOMAIN cats : cats[n] \in -MaxCount..MaxCount

FavoritesFrame ==
    UNCHANGED <<file, chunk_size, progress_callback, process_events, should_cancel,
                channels, categories, pc, current_channel_info, channels_processed,
                bytes_read, line_buffer, detected_encoding, lines, raised, emissions,
                slow, result, cache, cancel_observed, cancel_requested, cancelled_at,
                cancelled_pc, chunks_after_cancel, api, mtime, save_mode, calls,
                opens, saves, hit, prev_call, since_return, enable_cache, fault,
                obj, handed, manager_calls, returned, thread>>

Called(name, arg, favs, cats, ret) ==
    /\ Counted(cats)
    /\ favorites_manager' = [favorites |-> favs, custom_categories |-> cats,
                             call |-> <<name, arg>>, returned |-> ret]
    /\ FavoritesFrame

\* lines 133-156
add_favorite(channel_url, custom_category) ==
    LET favs == favorites_manager.favorites
        cats == favorites_manager.custom_categories
    IN  IF channel_url = ""
        THEN Called("add_favorite", channel_url, favs, cats, "False")
        ELSE IF channel_url \in DOMAIN favs
        THEN Called("add_favorite", channel_url,
                    IF custom_category # NoneCategory
                    THEN [favs EXCEPT ![channel_url] = custom_category]
                    ELSE favs,
                    cats, "False")
        ELSE Called("add_favorite", channel_url,
                    Put(favs, channel_url, custom_category),
                    Adjust(cats, custom_category, 1), "True")

\* lines 158-172
remove_favorite(channel_url) ==
    LET favs == favorites_manager.favorites
        cats == favorites_manager.custom_categories
    IN  IF channel_url \notin DOMAIN favs
        THEN Called("remove_favorite", channel_url, favs, cats, "False")
        ELSE Called("remove_favorite", channel_url, Remove(favs, channel_url),
                    Adjust(cats, favs[channel_url], -1), "True")

\* lines 228-242
create_custom_category(name) ==
    LET favs == favorites_manager.favorites
        cats == favorites_manager.custom_categories
    IN  IF name \in DOMAIN cats
        THEN Called("create_custom_category", name, favs, cats, "False")
        ELSE Called("create_custom_category", name, favs, Put(cats, name, 0), "True")

\* lines 244-257
delete_custom_category(name) ==
    LET favs == favorites_manager.favorites
        cats == favorites_manager.custom_categories
    IN  IF name \notin DOMAIN cats
        THEN Called("delete_custom_category", name, favs, cats, "False")
        ELSE Called("delete_custom_category", name,
                    [u \in DOMAIN favs |-> IF favs[u] = name THEN NoneCategory ELSE favs[u]],
                    Remove(cats, name), "True")

\* lines 263-283
move_to_category(channel_url, category_name) ==
    LET favs == favorites_manager.favorites
        cats == favorites_manager.custom_categories
    IN  IF channel_url \notin DOMAIN favs
        THEN Called("move_to_category", channel_url, favs, cats, "False")
        ELSE IF category_name # NoneCategory /\ category_name \notin DOMAIN cats
        THEN Called("move_to_category", channel_url, favs, cats, "False")
        ELSE Called("move_to_category", channel_url,
                    [favs EXCEPT ![channel_url] = category_name],
                    Adjust(Adjust(cats, favs[channel_url], -1), category_name, 1),
                    "True")

\* lines 439-462: the favorites and the categories of the file replace
\* those of the same url and the same name; a file that cannot be read
\* changes nothing
import_favorites(readable, data) ==
    LET favs == favorites_manager.favorites
        cats == favorites_manager.custom_categories
    IN  IF ~readable
        THEN Called("import_favorites", "unreadable", favs, cats, "False")
        ELSE Called("import_favorites", "export",
                    [u \in DOMAIN favs \cup DOMAIN data.favorites |->
                        IF u \in DOMAIN data.favorites THEN data.favorites[u] ELSE favs[u]],
                    [n \in DOMAIN cats \cup DOMAIN data.custom_categories |->
                        IF n \in DOMAIN data.custom_categories
                        THEN data.custom_categories[n] ELSE cats[n]],
                    "True")

\* what export_favorites of a manager writes (lines 409-417) when the
\* counts of that manager are those of its favorites
Exports ==
    { [favorites |-> f,
       custom_categories |->
          [n \in DefaultCategories \cup ({ f[u] : u \in DOMAIN f } \ {NoneCategory}) |->
              Cardinality({ u \in DOMAIN f : f[u] = n })]] :
      f \in UNION { [S -> {NoneCategory} \cup CategoryNames] : S \in SUBSET Urls } }

AddFavorite ==
    \E channel_url \in Urls \cup {""}, custom_category \in CategoryNames \cup {NoneCategory} :
        add_favorite(channel_url, custom_category)

RemoveFavorite == \E channel_url \in Urls : remove_favorite(channel_url)

CreateCustomCategory == \E name \in CategoryNames : create_custom_category(name)

DeleteCustomCategory == \E name \in CategoryNames : delete_custom_category(name)

MoveToCategory ==
    \E channel_url \in Urls, category_name \in CategoryNames \cup {NoneCategory} :
        move_to_category(channel_url, category_name)

ImportFavorites ==
    \E readable \in BOOLEAN, data \in Exports : import_favorites(readable, data)

\* lines 117-131: no data file; the default categories are created
InitFavorites ==
    /\ file = <<>>
    /\ chunk_size = DefaultChunkSize
    /\ progress_callback = FALSE
    /\ save_mode = "ok"
    /\ process_events = "None"
    /\ enable_cache = FALSE
    /\ fault = "none"
    /\ NewParser
    /\ cache = <<>>
    /\ thread = NoThread
    /\ favorites_manager = [favorites |-> <<>>,
                            custom_categories |-> [n \in DefaultCategories |-> 0],
                            call |-> <<"__init__", "">>,
                            returned |-> "nothing"]

NextFavorites ==
    \/ AddFavorite
    \/ RemoveFavorite
    \/ CreateCustomCategory
    \/ DeleteCustomCategory
    \/ MoveToCategory
    \/ ImportFavorites

SpecFavorites == InitFavorites /\ [][NextFavorites]_vars

\* a parser without cache and without progress callback, set to read small
\* chunks, that one caller uses again and again, through both entry points,
\* cancelling and changing the source as it likes
InitReuse ==
    /\ file \in CacheFiles
    /\ chunk_size = SmallChunk
    /\ progress_callback = FALSE
    /\ save_mode = "ok"
    /\ process_events = "callable"
    /\ enable_cache = FALSE
    /\ fault = "none"
    /\ Constructed

\* between two calls the caller turns to another source
OtherSource ==
    /\ pc = "created"
    /\ calls > 1
    /\ "mutate" \notin since_return
    /\ file' \in CacheFiles \ {file}
    /\ since_return' = since_return \cup {"mutate"}
    /\ UNCHANGED <<chunk_size, progress_callback, mtime, save_mode, enable_cache,
                   fault, heap, calls, opens, saves, hit, prev_call,
                   manager_calls, returned, thread, favorites_manager,
                   process_events, should_cancel, channels, categories, pc,
                   locals, emissions, slow, result, cache, history, api>>

NextReuse ==
    \/ ParseStep
    \/ CancelDuringParse
    \/ CallAgain
    \/ OtherSource
    \/ InvalidateCache

SpecReuse == InitReuse /\ [][NextReuse]_vars

\* ========================================================================
\* Properties
\* ========================================================================
\* the non-blank lines of the source text, stripped
SourceLines ==
    LET ls == SplitNL(DecodeUtf8Ignore(file))
    IN  SelectSeq([i \in 1..Len(ls) |-> Strip(ls[i])], LAMBDA l : l # <<>>)

IsUrlLine(l) == l # <<>> /\ ~StartsWith(l, S_HASH)
IsGoodHeader(l) == StartsWith(l, S_EXTINF) /\ ExtinfMatch(l).matched
IsBadHeader(l) == StartsWith(l, S_EXTINF) /\ ~ExtinfMatch(l).matched

\* url lines of the source whose preceding non-blank line is not a
\* well-formed header
OrphanUrls ==
    LET sl == SourceLines
    IN  { i \in 1..Len(sl) :
            /\ IsUrlLine(sl[i])
            /\ (i = 1 \/ ~IsGoodHeader(sl[i - 1])) }

\* C1: every stored entry comes from a url line that completed a pending
\* #EXTINF header: in every state each entry has the header's duration and
\* name and the default-filled attributes as well as a url that is a
\* non-blank line not starting with "#"; a url line without a pending
\* header adds no entry, so whenever a call returns, its result has no more
\* entries than the source has header lines accepted by the pattern.
C1_EveryEntryHasHeaderAndUrl ==
    /\ [](\A i \in 1..Len(channels) :
              /\ {K_duration, K_name, K_tvg_name, K_group_title, K_url}
                     \subseteq DOMAIN channels[i]
              /\ IsUrlLine(channels[i][K_url]))
    /\ [][ result' # result =>
              /\ result'[1].channels = channels'
              /\ LET sl == SourceLines
                 IN  Len(channels')
                         <= Cardinality({ i \in 1..Len(sl) : IsGoodHeader(sl[i]) }) ]_vars

\* a finished parse of a source that has an orphan url line as well as a
\* header with its url: the entry is stored, the orphan is not
C1_Witness ==
    /\ pc = "done"
    /\ ~cancel_requested
    /\ ~raised
    /\ OrphanUrls # {}
    /\ Len(channels) >= 1
    /\ LET sl == SourceLines
       IN  Len(channels) < Cardinality({ i \in 1..Len(sl) : IsUrlLine(sl[i]) })

\* whether cats indexes chans exactly: every entry is in one list, once,
\* the list of its group-title; the lists hold nothing else; one list per name
Partitions(chans, cats) ==
    /\ \A i \in 1..Len(chans) :
          /\ Cardinality({ p \in { <<c, k>> : c \in 1..Len(cats), k \in 1..Len(chans) } :
                             /\ p[2] <= Len(cats[p[1]].members)
                             /\ cats[p[1]].members[p[2]] = i }) = 1
          /\ \A c \in 1..Len(cats) :
                (\E k \in 1..Len(cats[c].members) : cats[c].members[k] = i)
                    => cats[c].name = DictGet(chans[i], K_group_title, V_Uncategorized)
    /\ \A c \in 1..Len(cats) :
          /\ cats[c].members # <<>>
          /\ \A k \in 1..Len(cats[c].members) : cats[c].members[k] \in 1..Len(chans)
    /\ \A c, d \in 1..Len(cats) : cats[c].name = cats[d].name => c = d

\* C2: in every state, and in the returned result, the category index
\* partitions the entry list: each entry is in exactly one category list,
\* exactly once, the list named by its group-title ("Uncategorized" when it
\* has none), and the lists contain nothing that is not in the entry list.
C2_CategoriesPartitionChannels ==
    /\ Partitions(channels, categories)
    /\ result # <<>> => Partitions(result[1].channels, result[1].categories)

\* a returned result with two categories, one of them holding two entries
C2_Witness ==
    /\ pc = "done"
    /\ Len(result[1].channels) = 3
    /\ Len(result[1].categories) = 2
    /\ \E c \in 1..2 : Len(result[1].categories[c].members) = 2

\* C3: categories are in the order in which their group-title first appears
\* among the entries, and the entries of a category are in the order they
\* have in the entry list.
C3_FirstAppearanceOrder ==
    /\ \A c \in 1..Len(categories) :
          \A k \in 1..(Len(categories[c].members) - 1) :
              categories[c].members[k] < categories[c].members[k + 1]
    /\ \A c \in 1..(Len(categories) - 1) :
          /\ categories[c].members # <<>>
          /\ categories[c + 1].members # <<>>
          /\ categories[c].members[1] < categories[c + 1].members[1]

\* entries of two categories interleaved: the first category holds the
\* first and third entry, the second category the second
C3_Witness ==
    /\ Len(categories) = 2
    /\ categories[1].members = <<1, 3>>
    /\ categories[2].members = <<2>>
    /\ categories[1].name = V_Uncategorized

\* C4: chunk-boundary invariance: a parse of a source that ran to its end,
\* whatever its chunk size, has the entry list that a parse reading the
\* whole source as one chunk has; no chunk boundary splits, drops, alters
\* or duplicates a line, not even one that falls inside a multi-byte
\* character or between CR and LF.
C4_ChunkInvariance ==
    (pc = "done" /\ api = "file" /\ ~cancel_requested /\ ~raised)
        => channels = OnePass(file).channels

\* url lines of the source whose preceding non-blank line is a well-formed
\* header: the valid entries of the source
ValidEntries ==
    LET sl == SourceLines
    IN  { i \in 1..Len(sl) :
            /\ IsUrlLine(sl[i])
            /\ i > 1
            /\ IsGoodHeader(sl[i - 1]) }

\* C5: malformed-line tolerance: a parse that was not cancelled returns
\* exactly as many entries as the source has valid entries, however they
\* are interleaved with malformed #EXTINF lines and orphan urls.  (No
\* parsing call raises to its caller: every call reaches "done".)
C5_MalformedLineTolerance ==
    (pc = "done" /\ ~cancel_requested)
        => Len(result[1].channels) = Cardinality(ValidEntries)

\* C6: when the line the builder processes starts with #EXTINF: and matches
\* neither pattern, the step discards it and leaves the pending header
\* empty whatever it was, with no entry stored; and a url line processed
\* while the pending header is empty stores no entry; in both cases the
\* builder goes on with the next line.
C6_MalformedHeaderResetsPending ==
    [][ (pc = "lines" /\ lines # <<>> /\ lines' # lines)
            => /\ lines' = Tail(lines)
               /\ pc' = "lines"
               /\ IsBadHeader(Strip(Head(lines)))
                     => /\ current_channel_info' = EmptyDict
                        /\ channels' = channels
                        /\ categories' = categories
               /\ (IsUrlLine(Strip(Head(lines))) /\ current_channel_info = EmptyDict)
                     => /\ current_channel_info' = EmptyDict
                        /\ channels' = channels
                        /\ categories' = categories ]_vars

\* a finished parse of header, malformed header, url: the malformed header
\* cleared the pending header of the line before it and the url stored
\* nothing
C6_Witness ==
    /\ pc = "done"
    /\ api = "file"
    /\ file = JoinNL(<<HdrU, HdrBad, UrlH>>)
    /\ ~cancel_requested
    /\ ~raised
    /\ channels = <<>>
    /\ current_channel_info = EmptyDict

\* C7: once the cancel flag was observed at the top of a chunk iteration, no
\* step reads a further chunk or appends an entry, the line buffer is not
\* flushed, and the result the call returns is exactly the entries and
\* categories accumulated when the flag was observed.
C7_NothingAfterCancelObserved ==
    [][ cancel_observed
            => /\ channels' = channels
               /\ categories' = categories
               /\ bytes_read' = bytes_read
               /\ line_buffer' = line_buffer
               /\ result' # result
                     => result' = <<[channels |-> channels,
                                     categories |-> categories]>> ]_vars

\* a call that returned after the flag was observed while the line buffer
\* held a url for a pending header, with an entry stored before
C7_Witness ==
    /\ pc = "done"
    /\ cancel_observed
    /\ Len(result[1].channels) = 1
    /\ Truthy(current_channel_info)
    /\ IsUrlLine(Strip(line_buffer))

C9_CancelHonoured == chunks_after_cancel <= 1

\* C10: a build with a progress sink ends with one final emission, made
\* after all others, of 100 and the number of entries of the returned
\* result: the step that ends the build appends it, no step after that
\* emits, and so it is the last emission when the call returns, be it after
\* normal completion, a cancel, a swallowed error or an empty source.
C10_FinalEmission ==
    /\ []((api = "file" /\ progress_callback /\ pc \in {"save", "done"})
            => /\ emissions # <<>>
               /\ emissions[Len(emissions)] = <<100, Len(channels)>>
               /\ result # <<>> => Len(result[1].channels) = Len(channels))
    /\ [][ /\ (pc = "after_loop" /\ pc' # pc /\ progress_callback)
                => emissions' = Append(emissions, <<100, Len(channels')>>)
           /\ pc \in {"save", "done"} => emissions' = emissions ]_vars

\* a call that was cancelled after a progress update and an entry, and
\* whose last emission is the final one
C10_Witness ==
    /\ pc = "done"
    /\ api = "file"
    /\ cancel_observed
    /\ Len(emissions) >= 2
    /\ Len(result[1].channels) >= 1
    /\ emissions[Len(emissions)] = <<100, Len(result[1].channels)>>
    /\ emissions[1][1] < 100

\* ------------------------------------------------------------------------
\* Progress emissions
\* ------------------------------------------------------------------------
\* C11: when no loop iteration takes longer than 500 ms, the entry counts of
\* two consecutive emissions differ by at most progress_update_interval
C11_AtMostIntervalBetweenEmissions ==
    (progress_callback /\ slow = 0) =>
        \A k \in 1..(Len(emissions) - 1) :
            emissions[k + 1][2] - emissions[k][2] <= progress_update_interval

\* C12: every emission of the reading loop carries the percentage
\* min(100, bytes_read * 100 / file_size) truncated to an integer, within
\* 0..100, and a non-negative entry count
C12_PercentFormula ==
    [][(pc = "lines" /\ Len(emissions') > Len(emissions)) =>
          LET e     == emissions'[Len(emissions')]
              exact == (bytes_read * 100) \div Len(file)
          IN  /\ e[1] = IF exact > 100 THEN 100 ELSE exact
              /\ e[1] \in 0..100
              /\ e[2] >= 0]_vars

\* ------------------------------------------------------------------------
\* Caching
\* ------------------------------------------------------------------------
\* C13: a call served from the cache returns the cached result at once: the
\* source is not opened, save_cache is not called, nothing is read, and the
\* progress callback, when there is one, receives the single emission
\* (100, number of cached entries)
C13_HitReturnsCachedAtOnce ==
    (pc = "done" /\ hit) =>
        /\ opens = 0
        /\ saves = 0
        /\ bytes_read = 0
        /\ cache # <<>>
        /\ result = <<[channels |-> cache[1].channels,
                       categories |-> cache[1].categories]>>
        /\ emissions = IF progress_callback
                       THEN << <<100, Len(cache[1].channels)>> >>
                       ELSE <<>>

C13_Witness ==
    /\ pc = "done"
    /\ hit
    /\ progress_callback
    /\ Len(result[1].channels) = 2
    /\ emissions = << <<100, 2>> >>

\* the call that has returned was served from the cache with the result of
\* the call before it, without reading the source
RepeatsPreviousCall ==
    /\ hit
    /\ result = prev_call[1].result
    /\ opens = 0
    /\ emissions = IF progress_callback
                   THEN << <<100, Len(result[1].channels)>> >>
                   ELSE <<>>

\* C14 as stated: for any source, a call that follows another, neither of
\* them cancelled and the source and the cache left alone in between, is a
\* cache hit with the identical result, 100% progress and no re-parse
C14_RoundTripAnySource ==
    (/\ pc = "done"
     /\ calls > 1
     /\ since_return = {}
     /\ ~prev_call[1].cancelled
     /\ ~should_cancel)
        => RepeatsPreviousCall

\* C14: when the previous call stored its result (it ended uncancelled with
\* at least one entry and save_cache succeeded) or was itself a hit, and
\* source and cache were left alone since, the call is a cache hit with the
\* identical result, 100% progress and no re-parse
C14_RoundTripOfStoredResult ==
    (/\ pc = "done"
     /\ calls > 1
     /\ since_return = {}
     /\ prev_call[1].saved \/ prev_call[1].hit)
        => RepeatsPreviousCall

C14_Witness ==
    /\ pc = "done"
    /\ calls = 2
    /\ since_return = {}
    /\ prev_call[1].saved
    /\ RepeatsPreviousCall
    /\ Len(result[1].channels) = 2
    /\ Len(result[1].categories) = 2

\* C15: a call made after invalidate_cache for the source is a miss, also
\* when the fingerprint of the source is unchanged: the source is opened
\* and, unless the call is cancelled, read to its end
C15_InvalidateForcesReparse ==
    (calls > 1 /\ "invalidate" \in since_return /\ pc # "created") =>
        /\ ~hit
        /\ opens = 1
        /\ (pc = "done" /\ ~cancel_requested) => bytes_read = Len(file)

C15_Witness ==
    /\ pc = "done"
    /\ calls = 2
    /\ since_return = {"invalidate"}
    /\ prev_call[1].saved
    /\ ~hit
    /\ opens = 1
    /\ bytes_read = Len(file)
    /\ result = prev_call[1].result
    /\ Len(result[1].channels) = 2

\* C16: a call is served from the cache only when the fingerprint stored
\* with the entry equals the fingerprint of the source in path, size and
\* modification time; a call that finds an entry stored under another
\* fingerprint, as it does after the source was changed, is a miss and
\* opens the source
C16_StaleEntryNeverServed ==
    /\ []((pc = "done" /\ hit) =>
            /\ cache[1].fingerprint.source_path = "S"
            /\ cache[1].fingerprint.file_size = Len(file)
            /\ cache[1].fingerprint.modification_time = mtime)
    /\ [][(/\ pc = "created"
            /\ pc' # "created"
            /\ cache # <<>>
            /\ cache[1].fingerprint # Fingerprint)
              => (~hit' /\ opens' = 1 /\ result' = <<>>)]_vars

C16_Witness ==
    /\ pc = "loop"
    /\ calls = 2
    /\ "fingerprint" \in since_return
    /\ prev_call[1].saved
    /\ cache # <<>>
    /\ cache[1].valid
    /\ cache[1].fingerprint # Fingerprint
    /\ cache[1].channels = prev_call[1].result[1].channels
    /\ ~hit
    /\ opens = 1

\* the store holds exactly the entry Cached(F): the result of the call under
\* the fingerprint of the source
CachedCurrent ==
    cache = <<[fingerprint |-> Fingerprint, valid |-> TRUE,
               channels |-> result[1].channels,
               categories |-> result[1].categories]>>

C18_SaveOnlyCompleteNonEmpty ==
    /\ [][saves' > saves =>
            /\ pc = "save"
            /\ ~hit
            /\ ~should_cancel
            /\ channels # <<>>]_vars
    /\ [][(pc = "save" /\ (should_cancel \/ channels = <<>>)) =>
            /\ cache' = cache
            /\ saves' = saves]_vars

C18_Witness ==
    /\ pc = "done"
    /\ calls = 2
    /\ should_cancel
    /\ cancel_observed
    /\ ~hit
    /\ saves = 0
    /\ Len(result[1].channels) = 1
    /\ cache # <<>>
    /\ cache[1].valid
    /\ cache[1].fingerprint # Fingerprint
    /\ cache[1].channels = prev_call[1].result[1].channels

\* C19: a call whose save_cache returns False or raises returns what it
\* parsed: the channels and categories of the parser, which for a call that
\* was not cancelled are those of the whole source
C19_SaveFailureNotFatal ==
    (pc = "done" /\ saves > 0 /\ save_mode # "ok") =>
        /\ result = <<[channels |-> channels, categories |-> categories]>>
        /\ channels # <<>>
        /\ ~cancel_requested =>
               /\ channels = OnePass(file).channels
               /\ categories = OnePass(file).categories

C19_Witness ==
    /\ pc = "done"
    /\ saves = 1
    /\ save_mode = "raises"
    /\ ~cancel_requested
    /\ cache = <<>>
    /\ Len(result[1].channels) = 2
    /\ Len(result[1].categories) = 2

\* C20: a call that finds no cache file, or one that was damaged or made
\* unreadable since the last return, is a miss: it opens the source, returns
\* what it parses, which for a call that was not cancelled is the parse of
\* the whole source, and the failure does not reach the caller
C20_DamagedCacheIsMiss ==
    (pc # "created" /\ (calls = 1 \/ "corrupt" \in since_return)) =>
        /\ ~hit
        /\ opens = 1
        /\ (pc = "done" /\ ~cancel_requested) =>
               /\ ~raised
               /\ result = <<[channels |-> OnePass(file).channels,
                              categories |-> OnePass(file).categories]>>

C20_Witness ==
    /\ pc = "done"
    /\ calls = 2
    /\ since_return = {"corrupt"}
    /\ prev_call[1].saved
    /\ ~cancel_requested
    /\ ~hit
    /\ opens = 1
    /\ Len(result[1].channels) = 2
    /\ result = prev_call[1].result


\* C21: when the file is missing or unreadable, parse_m3u_from_file returns
\* ([], {}) and parsing never partially starts: no cache lookup result is
\* served, no progress is emitted, nothing is saved, and the parser's
\* channels and categories are empty.
\* The code looks the cache up (lines 71-83) before it opens the file (line
\* 89): a file that lost its read permission after an earlier call stored
\* its entry keeps its size and modification time, so the entry is served.
C21_UnavailableSourceNeverStarts ==
    (pc = "done" /\ api = "file" /\ fault \in {"missing", "unreadable"})
        => /\ result = EmptyResult
           /\ ~hit
           /\ emissions = <<>>
           /\ saves = 0
           /\ opens = 0
           /\ channels = <<>>
           /\ categories = <<>>

\* C22: no failure escapes parse_m3u_from_file as an exception: with a
\* missing or unreadable file, a read error, a malformed record, an
\* exception of the cache, of the progress callback or of the
\* process-events callback, a call is at one of its steps or has returned
\* an entry list and a category index, the list empty or the entries read
\* before the failure.
C22_NoFailureEscapes ==
    /\ pc \in {"created", "loop", "lines", "after_loop", "save", "done"}
    /\ pc = "done" =>
          /\ Len(result) = 1
          /\ result[1].channels \in {<<>>, channels}
          /\ result[1].categories \in {<<>>, categories}

\* the progress callback raised at the final update and the call returned
C22_Witness ==
    /\ pc = "done"
    /\ fault = "progress"
    /\ opens = 1
    /\ emissions # <<>>
    /\ channels # <<>>
    /\ result = EmptyResult

\* C23: parsing the same byte-identical source twice with the cache
\* disabled yields structurally identical results, also on the same parser
\* and whatever happened before (a parse of another source, a cancelled
\* parse): any two uncancelled calls of the same entry point on the same
\* bytes returned equal lists and equal indexes.
C23_Idempotent ==
    \A i, j \in DOMAIN handed :
        (/\ handed[i].source = handed[j].source
         /\ handed[i].api = handed[j].api
         /\ ~handed[i].cancelled
         /\ ~handed[j].cancelled)
            => handed[i].returned = handed[j].returned

\* the source was parsed, another source was parsed and the call cancelled
\* with entries read, and the first source was parsed again
C23_Witness ==
    /\ pc = "done"
    /\ Len(handed) = 3
    /\ handed[1].source = handed[3].source
    /\ handed[1].source # handed[2].source
    /\ handed[1].api = "file" /\ handed[3].api = "file"
    /\ handed[2].cancelled
    /\ handed[2].returned.channels # <<>>
    /\ ~handed[1].cancelled /\ ~handed[3].cancelled
    /\ handed[3].returned.channels # <<>>

RawData  == Take(file, IF Len(file) < 4 THEN Len(file) ELSE 4)
TestData == Take(file, IF Len(file) < DetectSample THEN Len(file) ELSE DetectSample)

\* the sample decodes without error in the encoding and the decoded text
\* contains "#EXTM3U" or "#EXTINF"
Accepted(encoding) ==
    /\ DecodesStrictly(TestData, encoding)
    /\ HasMarker(Decode(TestData, encoding))

\* C25: the encoding detector always returns an encoding identifier,
\* decided in this order: a byte-order-mark wins (FF FE gives UTF-16LE,
\* FE FF gives UTF-16BE, EF BB BF gives UTF-8 with BOM); otherwise the first
\* encoding of the list UTF-8, UTF-16, UTF-16LE, UTF-16BE, Latin-1, CP1252,
\* ISO-8859-1 that decodes the sample without error to a text containing
\* #EXTM3U or #EXTINF; otherwise UTF-8.
C25_DetectionOrder ==
    LET priority == << "utf-8", "utf-16", "utf-16le", "utf-16be", "latin-1",
                       "cp1252", "iso-8859-1" >>
    IN  opens = 1 =>
          /\ detected_encoding \in { priority[k] : k \in 1..7 } \cup { "utf-8-sig" }
          /\ StartsWith(RawData, BOM_UTF16LE) => detected_encoding = "utf-16le"
          /\ StartsWith(RawData, BOM_UTF16BE) => detected_encoding = "utf-16be"
          /\ StartsWith(RawData, BOM_UTF8) => detected_encoding = "utf-8-sig"
          /\ (/\ ~StartsWith(RawData, BOM_UTF16LE)
              /\ ~StartsWith(RawData, BOM_UTF16BE)
              /\ ~StartsWith(RawData, BOM_UTF8))
                => /\ \A k \in 1..7 :
                        (Accepted(priority[k]) /\ \A m \in 1..(k - 1) : ~Accepted(priority[m]))
                            => detected_encoding = priority[k]
                   /\ (\A k \in 1..7 : ~Accepted(priority[k]))
                            => detected_encoding = "utf-8"

\* a file without byte-order-mark whose sample decodes as UTF-8, but to a
\* text with a marker only as big-endian UTF-16, was opened
C25_Witness ==
    /\ opens = 1
    /\ pc = "done"
    /\ detected_encoding = "utf-16be"
    /\ ~StartsWith(RawData, BOM_UTF16BE)
    /\ DecodesStrictly(TestData, "utf-8")
    /\ ~Accepted("utf-8")
    /\ channels # <<>>

\* whether the source gives the attribute of key k, and gives it empty
Gives(k) == Contains(file, <<32>> \o k \o <<EQ, 34>>)
GivesEmpty(k) == Contains(file, <<32>> \o k \o <<EQ, 34, 34>>)

\* C26: every stored entry carries the default-filled attributes: tvg-id
\* and tvg-logo are present (empty when the header did not give them),
\* group-title is present ("Uncategorized" when absent), tvg-name is
\* present and equals name when the header gave none or an empty one, and
\* name, duration, content_type and url are present.
C26_DefaultsFilled ==
    \A i \in 1..Len(channels) :
        /\ { K_tvg_id, K_tvg_logo, K_group_title, K_tvg_name, K_name,
             K_duration, K_content_type, K_url } \subseteq DOMAIN channels[i]
        /\ ~Gives(K_tvg_id) => channels[i][K_tvg_id] = <<>>
        /\ ~Gives(K_tvg_logo) => channels[i][K_tvg_logo] = <<>>
        /\ ~Gives(K_group_title) => channels[i][K_group_title] = V_Uncategorized
        /\ (~Gives(K_tvg_name) \/ GivesEmpty(K_tvg_name))
              => channels[i][K_tvg_name] = channels[i][K_name]

\* an entry whose header gave an empty tvg-name, an empty group-title and
\* no tvg-id was stored under a name that is not empty
C26_Witness ==
    /\ pc = "done"
    /\ Len(channels) = 1
    /\ GivesEmpty(K_tvg_name)
    /\ GivesEmpty(K_group_title)
    /\ ~Gives(K_tvg_id)
    /\ channels[1][K_name] # <<>>
    /\ channels[1][K_tvg_name] = channels[1][K_name]
    /\ channels[1][K_group_title] = <<>>

\* whether name has a 4-digit year in parentheses that starts with 19 or 20
HasYearInParentheses(name) ==
    \E i \in 1..(Len(name) - 5) :
        /\ name[i] = 40
        /\ SubSeq(name, i + 1, i + 2) \in { <<49, 57>>, <<50, 48>> }
        /\ name[i + 3] \in 48..57
        /\ name[i + 4] \in 48..57
        /\ name[i + 5] = 41

\* the content type of an entry with the given tvg-type and name under the
\* stated precedence
StatedContentType(tvg_type, name) ==
    IF Lower(tvg_type) \in { <<115, 101, 114, 105, 101>>, <<115, 101, 114, 105, 101, 115>>,
                             <<101, 112, 105, 115, 111, 100, 101>> }
    THEN V_series
    ELSE IF Lower(tvg_type) \in { <<109, 111, 118, 105, 101>>, <<102, 105, 108, 109>> }
    THEN V_movie
    ELSE IF \/ \E d \in 48..57 : Contains(Lower(name), <<115, d>>)
            \/ \E d \in 48..57 : Contains(Lower(name), <<101, d>>)
            \/ Contains(Lower(name), <<115, 101, 97, 115, 111, 110>>)
            \/ Contains(Lower(name), <<101, 112, 105, 115, 111, 100, 101>>)
    THEN V_series
    ELSE IF \/ Contains(Lower(name), <<109, 111, 118, 105, 101>>)
            \/ Contains(Lower(name), <<102, 105, 108, 109>>)
            \/ HasYearInParentheses(name)
    THEN V_movie
    ELSE V_live

\* C27: content_type is always one of live, movie, series, with this
\* precedence: a tvg-type of serie/series/episode gives series and of
\* movie/film gives movie, regardless of the name; without such a tvg-type
\* the series markers of the name (s0-s9, e0-e9, season, episode) come
\* before its movie markers (movie, film, a 4-digit year in parentheses
\* starting 19 or 20); otherwise live.
\* Line 474 looks for "(20" and "(19" in the name, not for a year in
\* parentheses: the name "News (19)" makes a movie.
C27_ContentTypePrecedence ==
    \A i \in 1..Len(channels) :
        /\ channels[i][K_content_type] \in { V_live, V_movie, V_series }
        /\ channels[i][K_content_type] =
              StatedContentType(DictGet(channels[i], K_tvg_type, <<>>),
                                channels[i][K_name])

\* C28: parse_m3u_from_content called with a progress callback reports
\* progress during parsing: for content with more entries than
\* progress_update_interval the callback is invoked more than once.
\* _parse_content (lines 304-356) has no call of the progress callback.
C28_ContentProgressReported ==
    (/\ pc = "done"
     /\ api = "content"
     /\ progress_callback
     /\ Len(channels) > progress_update_interval)
        => Len(emissions) > 1

\* C29: the chunked reader strips a leading byte-order-mark only once, at
\* the very start of the stream: a U+FEFF that begins a later chunk, read
\* with the line buffer empty, is not removed, so the lines and the buffer
\* after the chunk are the split of the buffer joined with the whole text
\* of the chunk.
\* Line 219 tests the line buffer, not the position in the stream: the mark
\* is removed at the head of every chunk that follows a newline.
C29_BomStrippedOnlyAtStart ==
    [][(pc = "loop" /\ pc' = "lines" /\ bytes_read > 0) =>
          LET chunk_text == Decode(ReadBytes(file, bytes_read, chunk_size),
                                   detected_encoding)
              parts == SplitNL(line_buffer \o chunk_text)
          IN  /\ lines' = Take(parts, Len(parts) - 1)
              /\ line_buffer' = parts[Len(parts)]]_vars

\* C30: at end-of-stream the final buffered fragment is processed as one
\* last line if non-empty: when the loop ends without exception or cancel
\* and the buffer holds a url line while a header is pending, the entry of
\* that header with that url is appended to the channels, is counted in the
\* final progress emission, and is added at the end of its category.
C30_LastFragmentFlushed ==
    [][(/\ pc = "after_loop" /\ pc' # "after_loop"
        /\ ~raised /\ ~should_cancel
        /\ Strip(line_buffer) # <<>>
        /\ ~StartsWith(Strip(line_buffer), S_HASH)
        /\ Truthy(current_channel_info)) =>
          LET entry == DictSet(current_channel_info, K_url, Strip(line_buffer))
              group == DictGet(entry, K_group_title, V_Uncategorized)
          IN  /\ channels' = Append(channels, entry)
              /\ channels_processed' = channels_processed + 1
              /\ progress_callback =>
                    /\ emissions' # <<>>
                    /\ emissions'[Len(emissions')] = <<100, Len(channels')>>
              /\ \E i \in 1..Len(categories') :
                    /\ categories'[i].name = group
                    /\ categories'[i].members # <<>>
                    /\ categories'[i].members[Len(categories'[i].members)]
                          = Len(channels')]_vars

\* a file that does not end with a newline was read to its end with a
\* progress callback, and the url of its last line made the last entry,
\* which the final emission counts
C30_Witness ==
    /\ pc = "done" /\ api = "file" /\ ~raised /\ ~should_cancel
    /\ progress_callback
    /\ file # <<>> /\ file[Len(file)] # NL
    /\ Strip(line_buffer) # <<>>
    /\ channels # <<>>
    /\ channels[Len(channels)][K_url] = Strip(line_buffer)
    /\ current_channel_info = channels[Len(channels)]
    /\ emissions[Len(emissions)] = <<100, Len(channels)>>
    /\ result = <<[channels |-> channels, categories |-> categories]>>

\* the number of lines of the source that satisfy P
CountLines(P(_)) ==
    LET sl == SourceLines
    IN  Cardinality({ i \in 1..Len(sl) : P(sl[i]) })

\* C31: each #EXTINF header is consumed by at most one url: a line of the
\* loop adds at most one entry, and only as a url line that meets a pending
\* header, which it clears; a url line that meets no pending header adds
\* nothing; a well-formed #EXTINF line adds nothing and replaces whatever
\* header was pending with its own.  Hence in every state the entries are
\* no more than the well-formed #EXTINF lines of the source and no more
\* than its url lines.
C31_HeaderConsumedOnce ==
    /\ [][(pc = "lines" /\ lines # <<>> /\ lines' = Tail(lines)) =>
            LET line == Strip(Head(lines))
            IN  /\ Len(channels') \in { Len(channels), Len(channels) + 1 }
                /\ Len(channels') > Len(channels) =>
                      /\ IsUrlLine(line)
                      /\ Truthy(current_channel_info)
                      /\ current_channel_info' = EmptyDict
                      /\ channels'[Len(channels')]
                            = DictSet(current_channel_info, K_url, line)
                /\ (IsUrlLine(line) /\ ~Truthy(current_channel_info)) =>
                      channels' = channels
                /\ IsGoodHeader(line) =>
                      /\ channels' = channels
                      /\ current_channel_info' = ParseExtinfLine(line).info]_vars
    /\ [](/\ Len(channels) <= CountLines(IsGoodHeader)
          /\ Len(channels) <= CountLines(IsUrlLine))

\* a parse returned one entry for a source of two well-formed headers and
\* two url lines: a header followed by a header, and a url followed by a url
C31_Witness ==
    /\ pc = "done" /\ ~raised /\ ~cancel_requested
    /\ CountLines(IsGoodHeader) = 2
    /\ CountLines(IsUrlLine) = 2
    /\ Len(SourceLines) = 4
    /\ IsGoodHeader(SourceLines[1]) /\ IsGoodHeader(SourceLines[2])
    /\ Len(result[1].channels) = 1
    /\ result[1].channels[1][K_url] = SourceLines[3]

\* a stripped line that is blank, a #EXTVLCOPT: or #EXTGRP: directive, or
\* any other line starting with "#" that is no #EXTINF: line
IsPassedOver(l) ==
    \/ l = <<>>
    \/ StartsWith(l, S_EXTVLCOPT)
    \/ StartsWith(l, S_EXTGRP)
    \/ (StartsWith(l, S_HASH) /\ ~StartsWith(l, S_EXTINF))

\* the lines of the source text without those the loop passes over
KeptLines ==
    SelectSeq(SplitNL(DecodeUtf8Ignore(file)), LAMBDA l : ~IsPassedOver(Strip(l)))

\* C32: a line starting with #EXTVLCOPT: or #EXTGRP:, any other line
\* starting with "#" that is not #EXTINF:, and a blank line leave the
\* pending header, the entry list and the category index unchanged; so a
\* parse that ran to the end of the source returns what the source without
\* these lines gives: such lines between a header and its url do not
\* prevent the entry from being produced.
C32_PassedOverLinesChangeNothing ==
    /\ [][(/\ pc = "lines" /\ lines # <<>> /\ lines' = Tail(lines)
            /\ IsPassedOver(Strip(Head(lines)))) =>
               /\ current_channel_info' = current_channel_info
               /\ channels' = channels
               /\ categories' = categories]_vars
    /\ []((pc = "done" /\ ~raised /\ ~cancel_requested) =>
            LET b == ProcessLines(EmptyBuild, KeptLines)
            IN  /\ result[1].channels = b.channels
                /\ result[1].categories = b.categories)

\* a file read in small chunks, with a directive and a blank line between
\* its header and its url, gave the entry of that header and url
C32_Witness ==
    /\ pc = "done" /\ api = "file" /\ chunk_size = SmallChunk
    /\ ~raised /\ ~cancel_requested
    /\ Len(SplitNL(file)) = 4
    /\ IsGoodHeader(SplitNL(file)[1])
    /\ StartsWith(SplitNL(file)[2], S_EXTVLCOPT)
    /\ SplitNL(file)[3] = <<>>
    /\ Len(result[1].channels) = 1
    /\ result[1].channels[1][K_url] = Strip(SplitNL(file)[4])
    /\ result[1].channels[1][K_name] = ParseExtinfLine(SplitNL(file)[1]).info[K_name]

\* C33: a cache entry is only ever written from a parse that read the
\* source to end-of-stream: a builder that stopped early at an error (a
\* read error, an error of the progress or process-events callback, caught
\* inside the builder) does not save its partial result, so the store never
\* holds, and a later ingest is never served, fewer entries than the source
\* has.
\* Lines 95-100 test enable_cache, the cache manager, the cancel flag and
\* whether there are entries, not how the builder ended: the handler of
\* line 295 returns what was built so far and line 101 saves it.
C33_OnlyCompleteParsesSaved ==
    /\ [][saves' > saves => ~raised]_vars
    /\ [](cache # <<>> => Len(cache[1].channels) = Cardinality(ValidEntries))

\* lines 190-293 with no progress callback: the chunk loop from position
\* pos on, then the flush
RECURSIVE ChunkLoop(_, _, _, _, _, _)
ChunkLoop(f, n, encoding, b, line_buf, pos) ==
    IF pos >= Len(f) THEN FlushBuffer(b, line_buf)
    ELSE LET split == SplitChunk(line_buf, Decode(ReadBytes(f, pos, n), encoding))
         IN  ChunkLoop(f, n, encoding, ProcessLines(b, split.lines),
                       split.line_buffer, pos + n)

\* _parse_content_with_progress of a parser that has no progress callback
SilentParse(f, n) == ChunkLoop(f, n, DetectEncoding(f), EmptyBuild, <<>>, 0)

\* C34: the progress sink does not influence the result: a call of
\* parse_m3u_from_file that was not cancelled returns the entries and
\* categories the same source gives with the same chunk size to a parser
\* without progress callback, whether or not a progress callback is
\* installed and whether or not set_process_events_callback was called.
\* Line 278 calls self._process_events after an emission; __init__ leaves
\* it None, so with a progress callback and without the hook the first
\* emission ends the loop with a TypeError and the rest of the source is
\* lost.
C34_SinkDoesNotInfluenceResult ==
    (pc = "done" /\ api = "file" /\ ~cancel_requested) =>
        /\ result[1].channels = SilentParse(file, chunk_size).channels
        /\ result[1].categories = SilentParse(file, chunk_size).categories

\* C35: within one parse the progress emissions are monotone: neither the
\* percent nor the count of an emission is smaller than that of the one
\* before it, and the final emission (100, count), once made, is not
\* smaller than any earlier one.
C35_EmissionsMonotone ==
    /\ \A i \in 1..(Len(emissions) - 1) :
          /\ emissions[i][1] <= emissions[i + 1][1]
          /\ emissions[i][2] <= emissions[i + 1][2]
    /\ (progress_callback /\ api = "file" /\ pc \in {"save", "done"}) =>
          /\ emissions # <<>>
          /\ emissions[Len(emissions)][1] = 100
          /\ \A i \in 1..Len(emissions) :
                /\ emissions[i][1] <= emissions[Len(emissions)][1]
                /\ emissions[i][2] <= emissions[Len(emissions)][2]

\* a parse that ended after at least three emissions, with the percent and
\* the count both growing on the way
C35_Witness ==
    /\ pc = "done" /\ api = "file" /\ ~raised /\ ~cancel_requested
    /\ Len(emissions) >= 3
    /\ emissions[1][1] < emissions[2][1]
    /\ emissions[2][1] < 100
    /\ emissions[1][2] < emissions[Len(emissions) - 1][2]
    /\ emissions[Len(emissions) - 1][2] < emissions[Len(emissions)][2]

\* C36: the two builders implement the same state machine: for a source
\* that holds a text in UTF-8 and is read as such, a call of
\* parse_m3u_from_file that missed the cache and was not cancelled returns
\* the entry list and the category index that parse_m3u_from_content
\* returns for the list of the lines of that text.
\* Only the builder of parse_m3u_from_file removes a byte-order-mark
\* (lines 218-220): for a text that begins with U+FEFF followed by a
\* #EXTINF: line, _parse_content meets a first line that starts neither
\* with "#EXTINF:" nor with "#" and takes it for a url without header.
C36_BuildersAgree ==
    (/\ pc = "done" /\ api = "file" /\ ~cancel_requested /\ ~hit
     /\ Utf8Valid(file)
     /\ detected_encoding \in {"utf-8", "utf-8-sig"}) =>
        LET b == ProcessLines(EmptyBuild, ContentLines)
        IN  /\ result[1].channels = b.channels
            /\ result[1].categories = b.categories

\* C37: with enable_cache false the cache store is never touched: no step
\* of parse_m3u_from_file calls load or save, though a cache manager was
\* passed in and holds an entry for the source; no call is served from the
\* store; no step changes the store; and invalidate_cache returns False,
\* get_cache_info None, cleanup_old_cache 0 and get_cache_stats an empty
\* mapping, none of them calling the manager.
C37_DisabledCacheUntouched ==
    /\ [](~enable_cache => /\ manager_calls = {}
                           /\ ~hit
                           /\ saves = 0)
    /\ [][~enable_cache =>
            /\ cache' = cache
            /\ "invalidate" \in since_return' \ since_return => returned' = "False"
            /\ "info" \in since_return' \ since_return => returned' = "None"
            /\ "cleanup" \in since_return' \ since_return => returned' = "0"
            /\ "stats" \in since_return' \ since_return => returned' = "{}"]_vars

\* a parser with caching switched off, handed a manager that holds an entry
\* for the source, parsed the source twice, and between the calls all four
\* cache methods were called: the entry is still there and the second call
\* read the file
C37_Witness ==
    /\ ~enable_cache
    /\ cache # <<>> /\ cache[1].fingerprint = Fingerprint
    /\ calls = 2 /\ pc = "done"
    /\ since_return = {"invalidate", "info", "cleanup", "stats"}
    /\ opens = 1 /\ ~hit
    /\ result[1].channels # <<>>

\* C38: in the worker thread that runs a parse, once cancel_parsing() has
\* been called (and has returned) the thread emits no finished signal and
\* no further progress signal, whatever the interleaving of the cancel with
\* run(); and a run that is never cancelled emits exactly one of finished
\* and error.
\* progress_callback (lines 130-131) and run() (lines 158-166) test the
\* flag and emit afterwards: a cancel that falls between the test and the
\* emit is followed by the signal.
C38_NoSignalAfterCancel ==
    /\ [][thread.cancel = "done" =>
            \A i \in (Len(thread.signals) + 1)..Len(thread'.signals) :
                thread'.signals[i][1] \notin {"finished", "progress"}]_vars
    /\ []((thread.run = "returned" /\ thread.cancel = "none") =>
            Cardinality({ i \in 1..Len(thread.signals) :
                            thread.signals[i][1] \in {"finished", "error"} }) = 1)

\* C39: after any sequence of add_favorite, remove_favorite,
\* move_to_category, create_custom_category, delete_custom_category and
\* import_favorites, the channel_count of every custom category is the
\* number of favorites whose custom_category is that category, and is
\* never negative; and add_favorite of a url that is already a favorite
\* returns False and leaves the number of favorites as it was.
C39_CountsMatchFavorites ==
    /\ [](\A n \in DOMAIN favorites_manager.custom_categories :
            /\ favorites_manager.custom_categories[n] =
                 Cardinality({ u \in DOMAIN favorites_manager.favorites :
                                 favorites_manager.favorites[u] = n })
            /\ favorites_manager.custom_categories[n] >= 0)
    /\ [][(/\ favorites_manager'.call[1] = "add_favorite"
            /\ favorites_manager'.call[2] \in DOMAIN favorites_manager.favorites)
           => /\ favorites_manager'.returned = "False"
              /\ Cardinality(DOMAIN favorites_manager'.favorites) =
                   Cardinality(DOMAIN favorites_manager.favorites)]_vars
====
